---- MODULE Spec2Model ----
(***************************************************************************)
(* Position lifecycle of the trading agent: the scheduler tick of          *)
(* main.periodic_check, TradingStrategy (check_position, close_position,   *)
(* _update_position_parameters, _open_new_position, process_analysis) and  *)
(* the two files of DataPersistence (positions.json, trade_history.json).  *)
(* Further components have a specification each: the in-place write of a  *)
(* data file beside its reader (SpecWrite), the retry wrapper of           *)
(* utils.retry_decorator (SpecRetry), the scheduler's wait for the next    *)
(* timeframe (SpecSched), the cycle with its exception handler and         *)
(* cooldown (SpecCycle), an interrupt of the running task (SpecShutdown)   *)
(* and a start after it (SpecCrash), the streaming response processor of   *)
(* ModelManager with the header suppression of Logger.stream_info          *)
(* (SpecStream), the field extraction of PositionExtractor (SpecExtract),  *)
(* the model call with its fallback and the response cache (SpecAnalysis)  *)
(* and a tick whose model call failed (SpecModelFails).                    *)
(*                                                                         *)
(* Units.  Prices, stop_loss and take_profit are in hundredths of the      *)
(* quote currency (10000 is 100.00), so that the 0.98 / 1.04 / 1.02 / 0.96 *)
(* defaults of whole prices are exact.  A position size is in hundredths   *)
(* of the portfolio (10 is the fraction 0.1).  A pnl is the exact rational *)
(* <<numerator, denominator>> in lowest terms with denominator > 0.  An    *)
(* Optional[x] of the code is the sequence <<>> (None) or <<x>>.  Time is  *)
(* the number of the scheduler tick.                                       *)
(***************************************************************************)
EXTENDS Integers, Sequences, FiniteSets, TLC

\* Number of scheduler ticks explored.
MaxTicks == 3

\* Latest close prices the candle source may deliver.
Prices == {9700, 10000, 11000}

Signals == {"BUY", "SELL", "CLOSE", "HOLD"}

\* The tuples PositionExtractor.extract_trading_info may return: a signal alone,
\* or an opening/adjusting signal with levels (0 included) and a size.
Analyses ==
    [signal : Signals, confidence : {"HIGH"}, stop_loss : {<<>>},
     take_profit : {<<>>}, position_size : {<<>>}]
    \cup
    [signal : {"BUY", "HOLD"}, confidence : {"MEDIUM"},
     stop_loss : {<<0>>, <<9700>>}, take_profit : {<<>>, <<11000>>},
     position_size : {<<20>>}]

\* What extract_trading_info returns for a text with none of the labels.
NoAnalysis ==
    [signal |-> "HOLD", confidence |-> "MEDIUM", stop_loss |-> <<>>,
     take_profit |-> <<>>, position_size |-> <<>>]

VARIABLES
    current_position,  \* TradingStrategy.current_position: <<>> or <<Position>>
    positions_file,    \* positions.json: <<>> (no file) or <<record>>
    history_file,      \* trade_history.json: [state, entries]
    price,             \* periods['3D'].data[-1].close
    analysis,          \* the tuple extracted from this tick's analysis
    now,               \* datetime.now(), in ticks
    pc,                \* where periodic_check stands
    pre,               \* history variable: the state before the last lifecycle call
    disk,              \* what a write to the data directory meets: "ok", "readonly", "full"
    retry,             \* one call through retry_async.wrapper
    sched,             \* one call of _wait_for_next_timeframe_step
    fs,                \* one open(..., 'w') / json.dump of a data file, and its reader
    stream,            \* one call of ModelManager._process_stream, and the Logger
    analyzer           \* one analysis: send_prompt, the response cache, the extraction

\* The state of the position lifecycle.
lifecycle_vars ==
    <<current_position, positions_file, history_file, price, analysis, now, pc, pre>>

\* The components a lifecycle step does not touch.
outside == <<retry, sched, fs, stream, analyzer>>

vars == <<lifecycle_vars, disk, outside>>

----------------------------------------------------------------------------
(* Arithmetic *)

Abs(x) == IF x < 0 THEN -x ELSE x

RECURSIVE Gcd(_, _)
Gcd(a, b) == IF b = 0 THEN a ELSE Gcd(b, a % b)

\* The rational n/d in lowest terms, d # 0.
Frac(n, d) ==
    LET g == Gcd(Abs(n), Abs(d))
        s == IF d < 0 THEN -1 ELSE 1
    IN  <<(s * n) \div g, (s * d) \div g>>

\* price * (pct / 100), as current_price * 0.98 and the like.
Times(p, pct) == (p * pct) \div 100

\* Python truthiness of an Optional[float]: None and 0.0 are falsy.
Truthy(opt) == opt # <<>> /\ opt[1] # 0

----------------------------------------------------------------------------
(* DataPersistence *)

RequiredFields ==
    {"timestamp", "action", "price", "confidence", "stop_loss", "take_profit",
     "position_size", "reasoning"}

NoFile == [state |-> "absent", entries |-> <<>>]

\* The entries load_trade_history returns: none for a missing or unreadable file,
\* else those that hold every required field.
load_trade_history(file) ==
    IF file.state # "ok" THEN <<>>
    ELSE SelectSeq(file.entries, LAMBDA e : RequiredFields \subseteq DOMAIN e)

\* for trade in reversed(history): the index of the last BUY/SELL entry at or
\* before i, 0 when there is none.
RECURSIVE LastEntryIndex(_, _)
LastEntryIndex(history, i) ==
    IF i = 0 THEN 0
    ELSE IF history[i].action \in {"BUY", "SELL"} THEN i
    ELSE LastEntryIndex(history, i - 1)

\* The same scan from the front of the ledger: the first BUY/SELL entry.
RECURSIVE FirstEntryIndex(_, _)
FirstEntryIndex(history, i) ==
    IF i > Len(history) THEN 0
    ELSE IF history[i].action \in {"BUY", "SELL"} THEN i
    ELSE FirstEntryIndex(history, i + 1)

Mutant_last_entry(history) == FirstEntryIndex(history, 1)

\* The entry _calculate_pnl computes against, as an index (0: none).
last_entry(history) == LastEntryIndex(history, Len(history))

\* The formula with the position size left out.
Mutant_pnl_formula(entry, exit_price) ==
    IF entry.action = "BUY"
    THEN Frac((exit_price - entry.price) * 100, entry.price)
    ELSE Frac((entry.price - exit_price) * 100, entry.price)

\* ((exit - entry) / entry) * position_size * 100, position_size a fraction.
pnl_formula(entry, exit_price) ==
    IF entry.action = "BUY"
    THEN Frac((exit_price - entry.price) * entry.position_size, entry.price)
    ELSE Frac((entry.price - exit_price) * entry.position_size, entry.price)

_calculate_pnl(history, decision) ==
    IF history = <<>> THEN Frac(0, 1)
    ELSE LET i == last_entry(history)
         IN  IF i = 0 THEN Frac(0, 1)
             ELSE pnl_formula(history[i], decision.price)

IsCloseAction(action) == action \in {"CLOSE_LONG", "CLOSE_SHORT"}

\* The dictionary save_trade_decision appends.
trade_data(history, decision) ==
    IF IsCloseAction(decision.action)
    THEN [timestamp |-> decision.timestamp, action |-> decision.action,
          price |-> decision.price, confidence |-> decision.confidence,
          stop_loss |-> decision.stop_loss, take_profit |-> decision.take_profit,
          position_size |-> decision.position_size, reasoning |-> decision.reasoning,
          pnl |-> _calculate_pnl(history, decision)]
    ELSE [timestamp |-> decision.timestamp, action |-> decision.action,
          price |-> decision.price, confidence |-> decision.confidence,
          stop_loss |-> decision.stop_loss, take_profit |-> decision.take_profit,
          position_size |-> decision.position_size, reasoning |-> decision.reasoning]

\* The file after save_trade_decision: the loaded history plus the new entry.
\* On a read-only directory open() raises and the file stays; on a full disk
\* open() has truncated the file when json.dump raises.  Either exception is
\* caught and logged.
save_trade_decision(file, decision) ==
    LET history == load_trade_history(file)
    IN  IF disk = "readonly" THEN file
        ELSE IF disk = "full" THEN [state |-> "unreadable", entries |-> <<>>]
        ELSE [state |-> "ok", entries |-> Append(history, trade_data(history, decision))]

\* datetime.isoformat and datetime.fromisoformat: the text of an instant.
isoformat(t) == <<"iso", t>>
fromisoformat(text) == text[2]

\* positions.json as open(..., 'w') leaves it when json.dump then fails.
Truncated == [truncated |-> TRUE]

\* save_position that removes the record but never writes one.
Mutant_save_position(file, position) ==
    IF disk = "readonly" THEN file ELSE IF position = <<>> THEN <<>> ELSE file

\* The file after save_position: removed for None, else the position's fields.
\* A failing unlink, open or json.dump is caught and logged.
save_position(file, position) ==
    IF disk = "readonly" THEN file
    ELSE IF position = <<>> THEN <<>>
    ELSE IF disk = "full" THEN <<Truncated>>
    ELSE <<[entry_price |-> position[1].entry_price,
            stop_loss |-> position[1].stop_loss,
            take_profit |-> position[1].take_profit,
            size |-> position[1].size,
            entry_time |-> isoformat(position[1].entry_time),
            confidence |-> position[1].confidence,
            direction |-> position[1].direction]>>

\* load_position that takes the default confidence whatever the file holds.
Mutant_load_position(file) ==
    IF file = <<>> THEN <<>>
    ELSE LET data == file[1]
         IN  IF ~({"entry_price", "stop_loss", "take_profit", "size", "entry_time"}
                      \subseteq DOMAIN data)
             THEN <<>>
             ELSE <<[entry_price |-> data.entry_price,
                     stop_loss |-> data.stop_loss,
                     take_profit |-> data.take_profit,
                     size |-> data.size,
                     entry_time |-> fromisoformat(data.entry_time),
                     confidence |-> "MEDIUM",
                     direction |-> IF "direction" \in DOMAIN data
                                   THEN data.direction ELSE "LONG"]>>

\* None when there is no file or when reading it raises (no JSON, a missing
\* key); confidence and direction have defaults.
load_position(file) ==
    IF file = <<>> THEN <<>>
    ELSE LET data == file[1]
         IN  IF ~({"entry_price", "stop_loss", "take_profit", "size", "entry_time"}
                      \subseteq DOMAIN data)
             THEN <<>>
             ELSE <<[entry_price |-> data.entry_price,
                     stop_loss |-> data.stop_loss,
                     take_profit |-> data.take_profit,
                     size |-> data.size,
                     entry_time |-> fromisoformat(data.entry_time),
                     confidence |-> IF "confidence" \in DOMAIN data
                                    THEN data.confidence ELSE "MEDIUM",
                     direction |-> IF "direction" \in DOMAIN data
                                   THEN data.direction ELSE "LONG"]>>

----------------------------------------------------------------------------
(* TradingStrategy.  A lifecycle call maps the record                      *)
(* [position, positions_file, history_file] to the record after it.        *)

Lifecycle == [position |-> current_position, positions_file |-> positions_file,
              history_file |-> history_file]

\* A decision whose action is CLOSE_LONG whatever the direction.
Mutant_close_decision(p, reason, current_price, t) ==
    [timestamp |-> t, action |-> "CLOSE_LONG", price |-> current_price,
     confidence |-> IF p.confidence # "" THEN p.confidence ELSE "HIGH",
     stop_loss |-> p.stop_loss, take_profit |-> p.take_profit,
     position_size |-> p.size, reasoning |-> <<"Position closed", reason>>]

\* The TradeDecision close_position builds for position p.
close_decision(p, reason, current_price, t) ==
    [timestamp |-> t,
     action |-> IF p.direction = "LONG" THEN "CLOSE_LONG" ELSE "CLOSE_SHORT",
     price |-> current_price,
     confidence |-> IF p.confidence # "" THEN p.confidence ELSE "HIGH",
     stop_loss |-> p.stop_loss,
     take_profit |-> p.take_profit,
     position_size |-> p.size,
     reasoning |-> <<"Position closed", reason>>]

close_position(s, reason, current_price, t) ==
    IF s.position = <<>> THEN s
    ELSE [position |-> <<>>,
          positions_file |-> save_position(s.positions_file, <<>>),
          history_file |->
              save_trade_decision(s.history_file,
                  close_decision(s.position[1], reason, current_price, t))]

\* The comparisons of check_position with the equalities left out.
Mutant_breach_reason(p, current_price) ==
    IF p.direction = "LONG"
    THEN IF current_price < p.stop_loss THEN "stop_loss"
         ELSE IF current_price > p.take_profit THEN "take_profit"
         ELSE "none"
    ELSE IF current_price > p.stop_loss THEN "stop_loss"
         ELSE IF current_price < p.take_profit THEN "take_profit"
         ELSE "none"

\* The reason check_position closes the position for, "none" when it does not.
breach_reason(p, current_price) ==
    IF p.direction = "LONG"
    THEN IF current_price <= p.stop_loss THEN "stop_loss"
         ELSE IF current_price >= p.take_profit THEN "take_profit"
         ELSE "none"
    ELSE IF current_price >= p.stop_loss THEN "stop_loss"
         ELSE IF current_price <= p.take_profit THEN "take_profit"
         ELSE "none"

check_position(s, current_price, t) ==
    IF s.position = <<>> THEN s
    ELSE LET reason == breach_reason(s.position[1], current_price)
         IN  IF reason = "none" THEN s
             ELSE close_position(s, reason, current_price, t)

\* _update_position_parameters without updated = True for the take_profit.
Mutant_update_position_parameters(s, stop_loss, take_profit) ==
    IF s.position = <<>> THEN s
    ELSE LET p == s.position[1]
             sl_updated == Truthy(stop_loss) /\ stop_loss[1] # p.stop_loss
             tp_updated == Truthy(take_profit) /\ take_profit[1] # p.take_profit
             q == [p EXCEPT !.stop_loss = IF sl_updated THEN stop_loss[1] ELSE @,
                            !.take_profit = IF tp_updated THEN take_profit[1] ELSE @]
         IN  IF sl_updated
             THEN [s EXCEPT !.position = <<q>>,
                            !.positions_file = save_position(@, <<q>>)]
             ELSE [s EXCEPT !.position = <<q>>]

_update_position_parameters(s, stop_loss, take_profit) ==
    IF s.position = <<>> THEN s
    ELSE LET p == s.position[1]
             sl_updated == Truthy(stop_loss) /\ stop_loss[1] # p.stop_loss
             tp_updated == Truthy(take_profit) /\ take_profit[1] # p.take_profit
             q == [p EXCEPT !.stop_loss = IF sl_updated THEN stop_loss[1] ELSE @,
                            !.take_profit = IF tp_updated THEN take_profit[1] ELSE @]
         IN  IF sl_updated \/ tp_updated
             THEN [s EXCEPT !.position = <<q>>,
                            !.positions_file = save_position(@, <<q>>)]
             ELSE s

DefaultSize == 10

\* The LONG default for both directions.
Mutant_default_sl(signal, current_price) == Times(current_price, 98)

default_sl(signal, current_price) ==
    IF signal = "BUY" THEN Times(current_price, 98) ELSE Times(current_price, 102)

default_tp(signal, current_price) ==
    IF signal = "BUY" THEN Times(current_price, 104) ELSE Times(current_price, 96)

\* A signal other than BUY/SELL raises ValueError before anything is assigned;
\* process_analysis catches it, so the call changes nothing.
_open_new_position(s, signal, current_price, confidence, stop_loss, take_profit, position_size, t) ==
    IF signal \notin {"BUY", "SELL"} THEN s
    ELSE
    LET direction == IF signal = "BUY" THEN "LONG" ELSE "SHORT"
        final_sl == IF Truthy(stop_loss) THEN stop_loss[1]
                    ELSE default_sl(signal, current_price)
        final_tp == IF Truthy(take_profit) THEN take_profit[1]
                    ELSE default_tp(signal, current_price)
        final_position_size ==
            IF position_size # <<>> THEN position_size[1] ELSE DefaultSize
        position ==
            [entry_price |-> current_price, stop_loss |-> final_sl,
             take_profit |-> final_tp, size |-> final_position_size,
             entry_time |-> t, confidence |-> confidence, direction |-> direction]
        decision ==
            [timestamp |-> t, action |-> signal, price |-> current_price,
             confidence |-> confidence, stop_loss |-> final_sl,
             take_profit |-> final_tp, position_size |-> final_position_size,
             reasoning |-> <<"Opened new position", direction>>]
    IN  [position |-> <<position>>,
         positions_file |-> save_position(s.positions_file, <<position>>),
         history_file |-> save_trade_decision(s.history_file, decision)]

\* process_analysis without the return after the adjustment: a BUY/SELL
\* received while a position is open falls through and opens another.
Mutant_process_analysis_reopen(s, a, current_price, t) ==
    IF s.position # <<>> /\ a.signal = "CLOSE"
    THEN close_position(s, "analysis_signal", current_price, t)
    ELSE LET u == _update_position_parameters(s, a.stop_loss, a.take_profit)
         IN  IF a.signal \in {"BUY", "SELL"}
             THEN _open_new_position(u, a.signal, current_price, a.confidence,
                                     a.stop_loss, a.take_profit, a.position_size, t)
             ELSE u

\* process_analysis that tests signal != "HOLD" and opens a SHORT for
\* everything that is not a BUY.
Mutant_process_analysis_close(s, a, current_price, t) ==
    IF s.position # <<>>
    THEN IF a.signal = "CLOSE"
         THEN close_position(s, "analysis_signal", current_price, t)
         ELSE _update_position_parameters(s, a.stop_loss, a.take_profit)
    ELSE IF a.signal # "HOLD"
         THEN _open_new_position(s, IF a.signal = "BUY" THEN "BUY" ELSE "SELL",
                                 current_price, a.confidence,
                                 a.stop_loss, a.take_profit, a.position_size, t)
         ELSE s

process_analysis(s, a, current_price, t) ==
    IF s.position # <<>>
    THEN IF a.signal = "CLOSE"
         THEN close_position(s, "analysis_signal", current_price, t)
         ELSE _update_position_parameters(s, a.stop_loss, a.take_profit)
    ELSE IF a.signal \in {"BUY", "SELL"}
         THEN _open_new_position(s, a.signal, current_price, a.confidence,
                                 a.stop_loss, a.take_profit, a.position_size, t)
         ELSE s

----------------------------------------------------------------------------
(* main.periodic_check: one tick is Fetch, CheckPosition, Analyze,         *)
(* ProcessAnalysis.                                                        *)

\* periodic_check ending the tick when the breach check closed the position.
Mutant_after_check(before, after) ==
    IF before.position # <<>> /\ after.position = <<>> THEN "wait" ELSE "analyze"

\* Where periodic_check goes after the breach check: always on to the analysis.
after_check(before, after) == "analyze"

NoPre == [op |-> "none", breached |-> "none", position |-> <<>>,
          positions_file |-> <<>>, history_file |-> NoFile, price |-> 0,
          disk |-> "ok", stage |-> "none", slept |-> 0]

Snapshot(op, breached) ==
    [op |-> op, breached |-> breached, position |-> current_position,
     positions_file |-> positions_file, history_file |-> history_file,
     price |-> price, disk |-> disk, stage |-> "none", slept |-> 0]

Install(s) ==
    /\ current_position' = s.position
    /\ positions_file' = s.positions_file
    /\ history_file' = s.history_file

\* _wait_for_next_timeframe_step returns and fetch_ohlcv delivers the candles.
Fetch ==
    /\ pc = "wait"
    /\ now < MaxTicks
    /\ now' = now + 1
    /\ price' \in Prices
    /\ pc' = "check"
    /\ UNCHANGED <<current_position, positions_file, history_file, analysis, pre>>
    /\ UNCHANGED <<disk, outside>>

\* if analyzer.current_position: await analyzer.check_position(current_price)
CheckPosition ==
    /\ pc = "check"
    /\ LET s == check_position(Lifecycle, price, now)
       IN  /\ Install(s)
           /\ pre' = Snapshot("check",
                              IF current_position # <<>> /\ s.position = <<>>
                              THEN breach_reason(current_position[1], price)
                              ELSE "none")
           /\ pc' = after_check(Lifecycle, s)
    /\ UNCHANGED <<price, analysis, now>>
    /\ UNCHANGED <<disk, outside>>

\* analysis = await analyzer.analyze_trend(market_data), then its extraction.
Analyze ==
    /\ pc = "analyze"
    /\ analysis' \in Analyses
    /\ pc' = "apply"
    /\ UNCHANGED <<current_position, positions_file, history_file, price, now, pre>>
    /\ UNCHANGED <<disk, outside>>

\* await analyzer.process_analysis(analysis)
ProcessAnalysis ==
    /\ pc = "apply"
    /\ Install(process_analysis(Lifecycle, analysis, price, now))
    /\ pre' = Snapshot("apply", pre.breached)
    /\ pc' = "wait"
    /\ UNCHANGED <<price, analysis, now>>
    /\ UNCHANGED <<disk, outside>>

\* The other components at rest.
RetryIdle == [pc |-> "idle"]
SchedIdle == [pc |-> "idle"]
FsIdle == [pc |-> "idle"]
StreamIdle == [pc |-> "idle"]
AnalyzerIdle == [pc |-> "idle"]

OutsideIdle ==
    /\ retry = RetryIdle /\ sched = SchedIdle /\ fs = FsIdle
    /\ stream = StreamIdle /\ analyzer = AnalyzerIdle

\* A first start: no positions.json, no trade_history.json.
Init ==
    /\ positions_file = <<>>
    /\ history_file = NoFile
    /\ current_position = load_position(positions_file)
    /\ price = 0
    /\ analysis = NoAnalysis
    /\ now = 0
    /\ pc = "wait"
    /\ pre = NoPre
    /\ disk = "ok"
    /\ OutsideIdle

Next == Fetch \/ CheckPosition \/ Analyze \/ ProcessAnalysis

Spec == Init /\ [][Next]_vars

(* A start over files left by an earlier run or by another program: the    *)
(* ledger may be unreadable or hold an entry without a required field.     *)

StoredOpen ==
    [timestamp |-> 0, action |-> "BUY", price |-> 10000, confidence |-> "HIGH",
     stop_loss |-> 9800, take_profit |-> 10400, position_size |-> 10,
     reasoning |-> <<"Opened new position", "LONG">>]

\* An entry with no "reasoning" field.
StoredPartial ==
    [timestamp |-> 0, action |-> "BUY", price |-> 10000, confidence |-> "HIGH",
     stop_loss |-> 9800, take_profit |-> 10400, position_size |-> 10]

StoredPosition ==
    [entry_price |-> 10000, stop_loss |-> 9800, take_profit |-> 10400, size |-> 10,
     entry_time |-> isoformat(0), confidence |-> "HIGH", direction |-> "LONG"]

StoredFiles ==
    {[positions_file |-> <<>>, history_file |-> NoFile],
     [positions_file |-> <<StoredPosition>>,
      history_file |-> [state |-> "unreadable", entries |-> <<>>]],
     [positions_file |-> <<StoredPosition>>,
      history_file |-> [state |-> "ok", entries |-> <<StoredOpen, StoredPartial>>]]}

InitStored ==
    /\ \E f \in StoredFiles :
         /\ positions_file = f.positions_file
         /\ history_file = f.history_file
    /\ current_position = load_position(positions_file)
    /\ price = 0
    /\ analysis = NoAnalysis
    /\ now = 0
    /\ pc = "wait"
    /\ pre = NoPre
    /\ disk = "ok"
    /\ OutsideIdle

SpecStored == InitStored /\ [][Next]_vars

----------------------------------------------------------------------------
(* Writes to the data directory fail for a while: the directory is         *)
(* read-only (open and unlink raise) or the disk is full (open truncates,  *)
(* json.dump raises).  The change falls between two ticks.                 *)

DiskFails ==
    /\ pc = "wait"
    /\ disk = "ok"
    /\ disk' \in {"readonly", "full"}
    /\ UNCHANGED <<lifecycle_vars, outside>>

DiskRecovers ==
    /\ pc = "wait"
    /\ disk # "ok"
    /\ disk' = "ok"
    /\ UNCHANGED <<lifecycle_vars, outside>>

NextFaults == Next \/ DiskFails \/ DiskRecovers

SpecFaults == Init /\ [][NextFaults]_vars

----------------------------------------------------------------------------
(* The process stops between two lifecycle calls and is started again:     *)
(* the new process loads its position from positions.json.                 *)

Restart ==
    /\ pre' = Snapshot("load", "none")
    /\ current_position' = load_position(positions_file)
    /\ analysis' = NoAnalysis
    /\ pc' = "wait"
    /\ UNCHANGED <<positions_file, history_file, price, now>>
    /\ UNCHANGED <<disk, outside>>

NextRestart == Next \/ Restart

SpecRestart == Init /\ [][NextRestart]_vars

----------------------------------------------------------------------------
(* One data file (positions.json or trade_history.json) while the agent    *)
(* rewrites it in place and another process (the dashboard) reads it.      *)
(* A file is <<>> when absent, else <<text>>, its text a sequence of the   *)
(* chunks json.dump writes; the reader and the writer are two processes.   *)

MaxEntries == 2

\* The lifecycle at its first start, with writes succeeding.
LifecycleIdle ==
    /\ positions_file = <<>>
    /\ history_file = NoFile
    /\ current_position = <<>>
    /\ price = 0
    /\ analysis = NoAnalysis
    /\ now = 0
    /\ pc = "wait"
    /\ pre = NoPre
    /\ disk = "ok"

\* json.dump(history, f): the list's chunks; json.dump(data, f): the object's.
LedgerText(entries) == <<"[">> \o entries \o <<"]">>
RecordText(direction) == <<"{", direction, "}">>

\* json.load accepts the text.
IsJson(text) ==
    /\ Len(text) >= 2
    /\ \/ text[1] = "[" /\ text[Len(text)] = "]"
       \/ text[1] = "{" /\ text[Len(text)] = "}"

\* load_trade_history of the file as it stands: [] when absent or unreadable.
StoredEntries(file) ==
    IF file # <<>> /\ IsJson(file[1]) THEN SubSeq(file[1], 2, Len(file[1]) - 1)
    ELSE <<>>

\* What a save writes next: the record of a position, or the ledger plus one.
NextTexts(name, file) ==
    IF name = "positions.json" THEN {RecordText(d) : d \in {"LONG", "SHORT"}}
    ELSE IF Len(StoredEntries(file)) < MaxEntries
         THEN {LedgerText(Append(StoredEntries(file), a)) : a \in {"BUY", "CLOSE_LONG"}}
         ELSE {}

\* open(file, 'w'): the file exists and is empty from here on.
open_w(file) == << <<>> >>

\* with open(file, 'w') as f: the file is created or truncated.
OpenForWrite ==
    /\ fs.pc = "idle"
    /\ \E text \in NextTexts(fs.name, fs.file) :
         fs' = [fs EXCEPT !.pc = "dump", !.old = fs.file, !.new = <<text>>,
                          !.file = open_w(fs.file), !.written = 0,
                          !.observed = <<>>]
    /\ UNCHANGED <<lifecycle_vars, disk, retry, sched, stream, analyzer>>

\* json.dump: the next chunk reaches the file (when the buffer is flushed, at
\* the latest when the file is closed).
Dump ==
    /\ fs.pc = "dump"
    /\ fs.written < Len(fs.new[1])
    /\ fs' = [fs EXCEPT !.written = fs.written + 1,
                        !.file = <<SubSeq(fs.new[1], 1, fs.written + 1)>>]
    /\ UNCHANGED <<lifecycle_vars, disk, retry, sched, stream, analyzer>>

\* The with block ends: the file is closed.
CloseFile ==
    /\ fs.pc = "dump"
    /\ fs.written = Len(fs.new[1])
    /\ fs' = [fs EXCEPT !.pc = "idle"]
    /\ UNCHANGED <<lifecycle_vars, disk, retry, sched, stream, analyzer>>

\* save_position(None): positions.json is removed.
Unlink ==
    /\ fs.pc = "idle"
    /\ fs.name = "positions.json"
    /\ fs.file # <<>>
    /\ fs' = [fs EXCEPT !.old = fs.file, !.new = <<>>, !.file = <<>>,
                        !.observed = <<>>]
    /\ UNCHANGED <<lifecycle_vars, disk, retry, sched, stream, analyzer>>

\* The reader opens the file and reads what is there now.
Read ==
    /\ fs.observed # <<fs.file>>
    /\ fs' = [fs EXCEPT !.observed = <<fs.file>>]
    /\ UNCHANGED <<lifecycle_vars, disk, retry, sched, stream, analyzer>>

InitWrite ==
    /\ LifecycleIdle
    /\ retry = RetryIdle
    /\ sched = SchedIdle
    /\ stream = StreamIdle
    /\ analyzer = AnalyzerIdle
    /\ \E name \in {"positions.json", "trade_history.json"} :
         fs = [pc |-> "idle", name |-> name, file |-> <<>>, old |-> <<>>,
               new |-> <<>>, written |-> 0, observed |-> <<>>]

NextWrite == OpenForWrite \/ Dump \/ CloseFile \/ Unlink \/ Read

SpecWrite == InitWrite /\ [][NextWrite]_vars

----------------------------------------------------------------------------
(* utils.retry_decorator.retry_async: one call through the wrapper.  The   *)
(* wrapped operation's behaviour is fixed when the call starts: it raises  *)
(* the error `kind` on its first `fails` invocations and then ends with    *)
(* `final` (a result, or an error the wrapper does not retry).             *)

MaxRetries == 2
MaxFailures == MaxRetries + 1

\* The decorator's default arguments.
DefaultMaxRetries == -1
DefaultInitialDelay == 1
DefaultBackoffFactor == 2
DefaultMaxDelay == 3600

\* initial_delay, backoff_factor, max_delay: the defaults, and two settings
\* whose cap is reached within MaxFailures retries.
RetryConfigs ==
    {[initial_delay |-> DefaultInitialDelay, backoff_factor |-> DefaultBackoffFactor,
      max_delay |-> DefaultMaxDelay],
     [initial_delay |-> 1, backoff_factor |-> 2, max_delay |-> 3],
     [initial_delay |-> 2, backoff_factor |-> 3, max_delay |-> 5]}

\* The exception classes an invocation may raise.  ccxt derives BadRequest,
\* BadSymbol (from BadRequest) and AuthenticationError from ExchangeError, and
\* RequestTimeout, DDoSProtection and RateLimitExceeded from NetworkError.
TransientTypes ==
    {"NetworkError", "RequestTimeout", "DDoSProtection", "RateLimitExceeded",
     "TimeoutError", "ConnectionResetError"}
FatalTypes == {"BadSymbol", "BadRequest", "AuthenticationError"}
ExchangeErrorTypes == {"ExchangeError", "InsufficientFunds"} \cup FatalTypes

\* str(e), word by word.
Texts ==
    {<<"Too", "many", "requests">>, <<"too", "many", "requests">>,
     <<"Rate", "limit", "exceeded">>, <<"invalid", "symbol">>}

lower(word) ==
    IF word = "Too" THEN "too" ELSE IF word = "Rate" THEN "rate" ELSE word

\* phrase in text
Contains(text, phrase) ==
    \E i \in 1..Len(text) :
        /\ i + Len(phrase) - 1 <= Len(text)
        /\ SubSeq(text, i, i + Len(phrase) - 1) = phrase

\* "Too many requests" in str(e) or "rate limit" in str(e).lower()
HasRateLimitText(text) ==
    \/ Contains(text, <<"Too", "many", "requests">>)
    \/ Contains([i \in 1..Len(text) |-> lower(text[i])], <<"rate", "limit">>)

Success == [type |-> "none", text |-> <<>>]

Errors ==
    [type : {"NetworkError", "RateLimitExceeded", "TimeoutError"},
     text : {<<"invalid", "symbol">>}]
    \cup [type : ExchangeErrorTypes, text : Texts]
    \cup [type : {"ValueError"}, text : {<<"Rate", "limit", "exceeded">>, <<"invalid", "symbol">>}]

\* Except clauses of which the last raises without logging.
Mutant_except_clause(e) ==
    IF e.type \in TransientTypes THEN "retry"
    ELSE IF e.type \in ExchangeErrorTypes
         THEN IF HasRateLimitText(e.text) THEN "retry" ELSE "raise"
    ELSE "raise"

\* The except clause that handles e, clauses tried in the order written.
except_clause(e) ==
    IF e.type \in TransientTypes THEN "retry"
    ELSE IF e.type \in ExchangeErrorTypes
         THEN IF HasRateLimitText(e.text) THEN "retry" ELSE "raise"
    ELSE IF e.type \in {"BadSymbol", "BadRequest"} THEN "raise"
    ELSE "log_raise"

Retried == {e \in Errors : except_clause(e) = "retry"}

RECURSIVE Pow(_, _)
Pow(b, n) == IF n = 0 THEN 1 ELSE b * Pow(b, n - 1)

Min(a, b) == IF a <= b THEN a ELSE b

\* The delay computed from the count after the increment.
Mutant_wait_time(delay, backoff_factor, retries, max_delay) ==
    Min(delay * Pow(backoff_factor, retries), max_delay)

\* wait_time = min(delay * (backoff_factor ** (retries - 1)), max_delay)
wait_time(delay, backoff_factor, retries, max_delay) ==
    Min(delay * Pow(backoff_factor, retries - 1), max_delay)

\* A loop that takes -1 for a bound like any other.
Mutant_loop_guard(max_retries, retries) == retries <= max_retries

\* while max_retries == -1 or retries <= max_retries
loop_guard(max_retries, retries) == max_retries = -1 \/ retries <= max_retries

\* A wrapper that raises the last error when the loop ends.
Mutant_after_loop(r) == [r EXCEPT !.pc = "raised", !.raised = r.last]

\* After the loop: the exhaustion is logged and None returned.
after_loop(r) == [r EXCEPT !.pc = "returned", !.result = "None", !.errors = r.errors + 1]

\* What the invocation numbered n does.
Outcome(r, n) == IF n <= r.fails THEN r.kind ELSE r.final

\* One pass of the loop body: func is awaited and its outcome handled.
Attempt ==
    /\ retry.pc = "call"
    /\ loop_guard(retry.max_retries, retry.retries)
    /\ LET o == Outcome(retry, Len(retry.calls) + 1)
           called == [retry EXCEPT !.calls = Append(retry.calls, retry.args),
                                   !.last = <<o>>]
       IN  retry' =
             IF o = Success
             THEN [called EXCEPT !.pc = "returned", !.result = "value"]
             ELSE IF except_clause(o) = "retry"
             THEN [called EXCEPT !.pc = "sleep", !.retries = retry.retries + 1,
                                 !.wait = wait_time(retry.initial_delay,
                                                    retry.backoff_factor,
                                                    retry.retries + 1,
                                                    retry.max_delay)]
             ELSE IF except_clause(o) = "raise"
             THEN [called EXCEPT !.pc = "raised", !.raised = <<o>>]
             ELSE [called EXCEPT !.pc = "raised", !.raised = <<o>>,
                                 !.errors = retry.errors + 2]
    /\ UNCHANGED <<lifecycle_vars, disk, sched, fs, stream, analyzer>>

\* await asyncio.sleep(wait_time) ends.
Sleep ==
    /\ retry.pc = "sleep"
    /\ retry' = [retry EXCEPT !.pc = "call", !.slept = Append(retry.slept, retry.wait)]
    /\ UNCHANGED <<lifecycle_vars, disk, sched, fs, stream, analyzer>>

\* The loop condition fails.
Exhaust ==
    /\ retry.pc = "call"
    /\ ~loop_guard(retry.max_retries, retry.retries)
    /\ retry' = after_loop(retry)
    /\ UNCHANGED <<lifecycle_vars, disk, sched, fs, stream, analyzer>>

InitRetry ==
    /\ LifecycleIdle
    /\ sched = SchedIdle
    /\ fs = FsIdle
    /\ stream = StreamIdle
    /\ analyzer = AnalyzerIdle
    /\ \E c \in RetryConfigs, m \in {DefaultMaxRetries} \cup 0..MaxRetries,
          a \in {"BTC/USDT", "ETH/USDT"}, n \in 0..MaxFailures, k \in Retried,
          f \in {Success} \cup (Errors \ Retried) :
         retry = [pc |-> "call", args |-> a, max_retries |-> m,
                  initial_delay |-> c.initial_delay,
                  backoff_factor |-> c.backoff_factor,
                  max_delay |-> c.max_delay,
                  fails |-> n, kind |-> k, final |-> f,
                  retries |-> 0, wait |-> 0, calls |-> <<>>, slept |-> <<>>,
                  errors |-> 0, result |-> "none", raised |-> <<>>, last |-> <<>>]

NextRetry == Attempt \/ Sleep \/ Exhaust

SpecRetry == InitRetry /\ [][NextRetry]_vars

\* The event loop runs the coroutine on: a sleep ends, the loop goes on.
SpecRetryFair == SpecRetry /\ WF_vars(NextRetry)

----------------------------------------------------------------------------
(* main._wait_for_next_timeframe_step: one wait of the scheduler.  Times   *)
(* are in milliseconds, as fetch_time gives them.                          *)

MaxBuckets == 2

\* Milliseconds in a second.
Ms == 1000

\* analyzer.interval: seconds of the timeframes 1m, 5m (the default) and 1h.
Intervals == {60, 300, 3600}

\* The current time: in one of the first timeframes, on its boundary, just
\* after it, inside it, or just before the next.
CurrentTimes(interval_ms) ==
    {k * interval_ms + off : k \in 0..MaxBuckets, off \in {0, 1, 1500, interval_ms - 1}}

\* The boundary at or after the current time.
Mutant_next_timeframe_start(current_time_ms, interval_ms) ==
    ((current_time_ms + interval_ms - 1) \div interval_ms) * interval_ms

\* next_timeframe_start_ms = (current_time_ms // interval_ms + 1) * interval_ms
next_timeframe_start(current_time_ms, interval_ms) ==
    (current_time_ms \div interval_ms + 1) * interval_ms

\* The milliseconds slept: to the next start plus add_delay, or the fixed delay.
delay_ms(current_time_ms, interval_ms, delay, add_delay) ==
    IF delay = <<>>
    THEN next_timeframe_start(current_time_ms, interval_ms) - current_time_ms
             + add_delay * Ms
    ELSE delay[1] * Ms

\* A wait that lets an error of fetch_time other than NotSupported go up.
Mutant_clock_after(outcome) ==
    IF outcome = "server" THEN "server"
    ELSE IF outcome = "NotSupported" THEN "local" ELSE "raise"

\* The clock the current time is read from, by what fetch_time did: its
\* result, or int(time.time() * 1000) after NotSupported and after any other
\* exception.
clock_after(outcome) == IF outcome = "server" THEN "server" ELSE "local"

\* fetch_time answers, or is not supported, or fails (a network error, any
\* other error): then the local clock is read.
FetchTime ==
    /\ sched.pc = "time"
    /\ \E outcome \in {"server", "NotSupported", "NetworkError", "error"},
          t \in CurrentTimes(sched.interval * Ms) :
         sched' = IF clock_after(outcome) = "raise"
                  THEN [sched EXCEPT !.pc = "raised", !.source = outcome]
                  ELSE [sched EXCEPT !.pc = "computed", !.source = outcome,
                                     !.clock = clock_after(outcome),
                                     !.current_time_ms = t]
    /\ UNCHANGED <<lifecycle_vars, disk, retry, fs, stream, analyzer>>

\* The delay is computed and asyncio.sleep is awaited.
StartSleep ==
    /\ sched.pc = "computed"
    /\ sched' = [sched EXCEPT !.pc = "sleep",
                              !.delay_ms = delay_ms(sched.current_time_ms,
                                                    sched.interval * Ms,
                                                    sched.delay, sched.add_delay)]
    /\ UNCHANGED <<lifecycle_vars, disk, retry, fs, stream, analyzer>>

\* The sleep ends and the function returns.
WakeUp ==
    /\ sched.pc = "sleep"
    /\ sched' = [sched EXCEPT !.pc = "done",
                              !.woke_ms = sched.current_time_ms + sched.delay_ms]
    /\ UNCHANGED <<lifecycle_vars, disk, retry, fs, stream, analyzer>>

InitSched ==
    /\ LifecycleIdle
    /\ retry = RetryIdle
    /\ fs = FsIdle
    /\ stream = StreamIdle
    /\ analyzer = AnalyzerIdle
    /\ \E i \in Intervals, d \in {<<>>, <<10>>}, a \in {0, 5} :
         sched = [pc |-> "time", interval |-> i, delay |-> d, add_delay |-> a,
                  source |-> "none", clock |-> "none", current_time_ms |-> 0,
                  delay_ms |-> 0,
                  woke_ms |-> 0]

NextSched == FetchTime \/ StartSleep \/ WakeUp

SpecSched == InitSched /\ [][NextSched]_vars

----------------------------------------------------------------------------
(* main.periodic_check with the exceptions of a cycle body: whatever       *)
(* escapes the try block is logged and followed by asyncio.sleep(60).      *)

\* await asyncio.sleep(60)
CooldownSeconds == 60

\* The steps of the cycle body an exception can escape from: the wait, the
\* candle fetch and the price read, the breach check, the analysis before its
\* own try block.  process_analysis catches every exception itself.
RaisingStages == [wait |-> {"wait", "fetch"}, check |-> {"check"}, analyze |-> {"analyze"}]

\* A candle fetch that takes an empty list for data.
Mutant_after_fetch(ohlcv) == IF ohlcv = "none" THEN "cooldown" ELSE "check"

\* fetch_candlestick_data returns None for no or empty candles, fetch_ohlcv
\* raises RuntimeError on None, periodic_check catches it.
after_fetch(ohlcv) == IF ohlcv \in {"none", "empty"} THEN "cooldown" ELSE "check"

\* A loop that an exception of the analysis step ends.
Mutant_except_Exception(stage) == IF stage = "analyze" THEN "stopped" ELSE "cooldown"

\* except Exception as e: the error is logged and the cooldown follows,
\* whichever step raised.
except_Exception(stage) == "cooldown"

\* A step of the cycle body raises before it has changed anything.
CycleRaises ==
    /\ pc \in DOMAIN RaisingStages
    /\ pc = "wait" => now < MaxTicks
    /\ \E stage \in RaisingStages[pc] :
         /\ pre' = [Snapshot("raise", "none") EXCEPT !.stage = stage]
         /\ pc' = except_Exception(stage)
    /\ now' = IF pc = "wait" THEN now + 1 ELSE now
    /\ UNCHANGED <<current_position, positions_file, history_file, price, analysis>>
    /\ UNCHANGED <<disk, outside>>

\* The exchange has no candles for the request.
FetchEmpty ==
    /\ pc = "wait"
    /\ now < MaxTicks
    /\ \E ohlcv \in {"none", "empty"} :
         /\ pre' = [Snapshot("raise", "none") EXCEPT !.stage = ohlcv]
         /\ pc' = after_fetch(ohlcv)
    /\ now' = now + 1
    /\ UNCHANGED <<current_position, positions_file, history_file, price, analysis>>
    /\ UNCHANGED <<disk, outside>>

\* The 60 seconds are over: the loop starts the next cycle.
Cooldown ==
    /\ pc = "cooldown"
    /\ pre' = [pre EXCEPT !.op = "cooldown", !.slept = CooldownSeconds]
    /\ pc' = "wait"
    /\ UNCHANGED <<current_position, positions_file, history_file, price, analysis, now>>
    /\ UNCHANGED <<disk, outside>>

NextCycle == Next \/ CycleRaises \/ FetchEmpty \/ Cooldown

SpecCycle == Init /\ [][NextCycle]_vars

(* Shutdown.  main runs the task with loop.run_until_complete and installs  *)
(* no signal handler: SIGINT raises KeyboardInterrupt at whatever statement *)
(* the task is executing, or, when the task is suspended in an await, in    *)
(* the loop, after which shutdown() cancels the task at that await.         *)
(* Neither is an Exception, so no handler of the cycle catches it.          *)

\* The lifecycle states close_position passes through: before the call,
\* after save_trade_decision, after save_position(None), and after
\* current_position = None.
close_position_steps(s, reason, current_price, t) ==
    IF s.position = <<>> THEN <<s>>
    ELSE LET decision == close_decision(s.position[1], reason, current_price, t)
             s1 == [s EXCEPT !.history_file = save_trade_decision(@, decision)]
             s2 == [s1 EXCEPT !.positions_file = save_position(@, <<>>)]
             s3 == [s2 EXCEPT !.position = <<>>]
         IN  <<s, s1, s2, s3>>

check_position_steps(s, current_price, t) ==
    IF s.position = <<>> THEN <<s>>
    ELSE LET reason == breach_reason(s.position[1], current_price)
         IN  IF reason = "none" THEN <<s>>
             ELSE close_position_steps(s, reason, current_price, t)

\* _open_new_position: self.current_position = Position(...), then
\* save_position, then save_trade_decision.
_open_new_position_steps(s, signal, current_price, confidence, stop_loss, take_profit, position_size, t) ==
    LET done == _open_new_position(s, signal, current_price, confidence,
                                   stop_loss, take_profit, position_size, t)
        s1 == [s EXCEPT !.position = done.position]
        s2 == [s1 EXCEPT !.positions_file = done.positions_file]
    IN  IF signal \notin {"BUY", "SELL"} THEN <<s>> ELSE <<s, s1, s2, done>>

\* _update_position_parameters: the levels are assigned, then saved.
_update_position_parameters_steps(s, stop_loss, take_profit) ==
    LET done == _update_position_parameters(s, stop_loss, take_profit)
        s1 == [s EXCEPT !.position = done.position]
    IN  IF done = s THEN <<s>> ELSE <<s, s1, done>>

process_analysis_steps(s, a, current_price, t) ==
    IF s.position # <<>>
    THEN IF a.signal = "CLOSE"
         THEN close_position_steps(s, "analysis_signal", current_price, t)
         ELSE _update_position_parameters_steps(s, a.stop_loss, a.take_profit)
    ELSE IF a.signal \in {"BUY", "SELL"}
         THEN _open_new_position_steps(s, a.signal, current_price, a.confidence,
                                       a.stop_loss, a.take_profit, a.position_size, t)
         ELSE <<s>>

\* The lifecycle states the step at pc passes through, the last being the
\* state the step ends in.
StepsAt(at) ==
    IF at = "check" THEN check_position_steps(Lifecycle, price, now)
    ELSE IF at = "apply" THEN process_analysis_steps(Lifecycle, analysis, price, now)
    ELSE <<Lifecycle>>

\* Where the task stands when the interrupt arrives at pc: the awaits of the
\* step and the statements of its lifecycle call.
AwaitsAt ==
    [wait |-> {"boundary", "sleep", "fetch_time", "fetch_ohlcv"},
     check |-> {"check_position"},
     analyze |-> {"model_call"},
     apply |-> {"process_analysis"},
     cooldown |-> {"sleep"}]

\* The statements of the running call that have executed when the interrupt
\* arrives: any number short of all of them.
interrupted_after(steps) == IF Len(steps) = 1 THEN {1} ELSE 1..(Len(steps) - 1)

\* KeyboardInterrupt out of run_until_complete, then shutdown(): the
\* connections are closed, the task is cancelled where it stands, the loop
\* stops.  Nothing of the interrupted call is completed or undone.
Interrupt ==
    /\ pc \in DOMAIN AwaitsAt
    /\ \E stage \in AwaitsAt[pc] :
         \E k \in interrupted_after(StepsAt(pc)) :
            /\ Install(StepsAt(pc)[k])
            /\ pre' = [Snapshot("interrupt", "none") EXCEPT !.stage = stage]
    /\ pc' = "stopped"
    /\ UNCHANGED <<price, analysis, now>>
    /\ UNCHANGED <<disk, outside>>

NextShutdown == NextCycle \/ Interrupt

SpecShutdown == Init /\ [][NextShutdown]_vars

\* The stopped process is started again: TradingStrategy is constructed and
\* run() loads the position from the files as the stop left them.
Recover ==
    /\ pc = "stopped"
    /\ Restart

NextCrash == NextShutdown \/ Recover

SpecCrash == Init /\ [][NextCrash]_vars

(* The streaming response processor, ModelManager._process_stream, with the *)
(* header suppression of Logger.stream_info and MarketAnalyzer's            *)
(* _clean_response.  A text is a sequence of one-character strings; the     *)
(* title and timestamp of a header line are one element.  stream.now is the *)
(* wall clock in seconds, the logger being constructed at 0.                *)

\* Number of chunks a stream delivers at most.
MaxFragments == 3

min_content_length == 120
HeaderGap == 5

Whitespace == {" ", "\n"}

RECURSIVE lstrip(_)
lstrip(text) ==
    IF text # <<>> /\ text[1] \in Whitespace THEN lstrip(Tail(text)) ELSE text

RECURSIVE rstrip(_)
rstrip(text) ==
    IF text # <<>> /\ text[Len(text)] \in Whitespace
    THEN rstrip(SubSeq(text, 1, Len(text) - 1))
    ELSE text

\* str.strip()
strip(text) == rstrip(lstrip(text))

paragraph_break == <<"\n", "\n">>
HeaderBar == <<"=", "=", "=", " ">>
Indent == <<" ", " ">>

\* f"=== {title} ({datetime.now().strftime(...)}) ==="
header_line(title, t) ==
    HeaderBar \o <<title \o " (" \o ToString(t) \o ")">> \o <<" ", "=", "=", "=">>

\* The suppression test with "and" for "or".
Mutant_suppressed(time_diff, text, logged_headers) ==
    time_diff < HeaderGap /\ text \in logged_headers

\* if time_diff < 5 or message.strip() in self._logged_headers: return
suppressed(time_diff, text, logged_headers) ==
    time_diff < HeaderGap \/ text \in logged_headers

\* Logger.__init__: no header logged, _last_header_time = datetime.now().
\* banners is the history of the header messages handed to stream_info.
NewLogger(t) == [logged_headers |-> {}, last_header_time |-> t, banners |-> <<>>]

\* Logger.stream_info: a blank message is dropped; a message holding "=== "
\* is a header and is emitted unless suppressed; other messages are emitted
\* and leave the logger as it is.
stream_info(lg, message, t) ==
    IF strip(message) = <<>> THEN lg
    ELSE IF ~Contains(message, HeaderBar) THEN lg
    ELSE LET text == strip(message)
             hide == suppressed(t - lg.last_header_time, text, lg.logged_headers)
             call == [text |-> text, at |-> t, shown |-> ~hide]
         IN  IF hide THEN [lg EXCEPT !.banners = Append(@, call)]
             ELSE [logged_headers |-> lg.logged_headers \cup {text},
                   last_header_time |-> t,
                   banners |-> Append(lg.banners, call)]

\* The length test with > for >=.
Mutant_should_flush(text) ==
    Contains(text, paragraph_break) \/ Len(text) > min_content_length

\* if paragraph_break in current_content[...] or len(...) >= min_content_length
should_flush(text) ==
    Contains(text, paragraph_break) \/ Len(text) >= min_content_length

\* formatted = current_content[phase].strip(); stream_info(f"  {formatted}");
\* full_response += f"  {formatted}\n".  flushes is the history of the
\* flushed texts.
write_out(s, phase, t) ==
    LET formatted == strip(s[phase])
    IN  [s EXCEPT !.logger = stream_info(@, Indent \o formatted, t),
                  !.full_response = @ \o Indent \o formatted \o <<"\n">>,
                  !.flushes = Append(@, [phase |-> phase, text |-> formatted])]

\* The flush inside the loop, which also empties the buffer.
flush(s, phase, t) == [write_out(s, phase, t) EXCEPT ![phase] = <<>>]

\* stream_info(header); full_response += f"<think>{header}\n", and the same
\* for the footer with "</think>\n".
record_header(s, marker, title, t) ==
    [s EXCEPT !.logger = stream_info(@, header_line(title, t), t),
              !.full_response = @ \o marker \o header_line(title, t) \o <<"\n">>]

open_thinking(s, t) ==
    record_header([s EXCEPT !.in_thinking_mode = TRUE],
                  <<"<think>">>, "Thinking Process", t)

close_thinking(s, t) ==
    record_header([s EXCEPT !.in_thinking_mode = FALSE],
                  <<"</think>", "\n">>, "Analysis Results", t)

\* Lines 129-144: the reasoning of a delta.
take_reasoning(s, reasoning, t) ==
    IF reasoning = <<>> THEN s
    ELSE LET opened == IF ~s.in_thinking_mode THEN open_thinking(s, t) ELSE s
             held == [opened EXCEPT !.reasoning = @ \o reasoning]
         IN  IF should_flush(held.reasoning) THEN flush(held, "reasoning", t)
             ELSE held

\* Lines 146-159: the content of a delta.
take_content(s, content, t) ==
    IF content = <<>> THEN s
    ELSE LET closed == IF s.in_thinking_mode THEN close_thinking(s, t) ELSE s
             held == [closed EXCEPT !.response = @ \o content]
         IN  IF should_flush(held.response) THEN flush(held, "response", t)
             ELSE held

\* One chunk of the stream.
take_chunk(s, delta, t) ==
    take_content(take_reasoning(s, delta.reasoning, t), delta.content, t)

\* The end of the stream without the closing marker.
Mutant_finish(s, t) ==
    LET s1 == IF strip(s.reasoning) # <<>> THEN write_out(s, "reasoning", t) ELSE s
        s2 == IF strip(s1.response) # <<>> THEN write_out(s1, "response", t) ELSE s1
    IN  [s2 EXCEPT !.buffer = <<s2.full_response>>]

\* Lines 165-182: what is left in the buffers is written out when it is not
\* blank, an open thinking section is closed, the buffer gets the transcript.
finish(s, t) ==
    LET s1 == IF strip(s.reasoning) # <<>> THEN write_out(s, "reasoning", t) ELSE s
        s2 == IF strip(s1.response) # <<>> THEN write_out(s1, "response", t) ELSE s1
        s3 == IF s2.in_thinking_mode
              THEN record_header(s2, <<"</think>", "\n">>, "Analysis Results", t)
              ELSE s2
    IN  [s3 EXCEPT !.buffer = <<s3.full_response>>]

\* re.sub(r'<think>.*?</think>', '', text, flags=re.DOTALL): every stretch
\* from a "<think>" to the first "</think>" after it is removed.
FirstAt(text, token, from) ==
    IF \E i \in from..Len(text) : text[i] = token
    THEN CHOOSE i \in from..Len(text) :
            text[i] = token /\ \A j \in from..(i - 1) : text[j] # token
    ELSE 0

RECURSIVE remove_think(_)
remove_think(text) ==
    LET i == FirstAt(text, "<think>", 1)
        j == IF i = 0 THEN 0 ELSE FirstAt(text, "</think>", i + 1)
    IN  IF i = 0 \/ j = 0 THEN text
        ELSE SubSeq(text, 1, i - 1) \o remove_think(SubSeq(text, j + 1, Len(text)))

_clean_response(text) == strip(remove_think(text))

\* n copies of a character.
Repeat(c, n) == [i \in 1..n |-> c]

\* The reasoning and the content a chunk's delta may carry; "" is <<>>, the
\* value of the side a delta does not carry.
ReasoningTexts ==
    {<<"r">>, <<" ">>, <<"r", "\n", "\n", "s">>,
     Repeat("r", min_content_length - 1)}

ContentTexts ==
    {<<"a">>, <<"4", "\n", "\n", "2">>,
     HeaderBar \o <<"a", "\n", "\n">>,
     Repeat("a", min_content_length - 1)}

Deltas ==
    [reasoning : ReasoningTexts, content : {<<>>}]
    \cup [reasoning : {<<>>}, content : ContentTexts]
    \cup {[reasoning |-> <<"r">>, content |-> <<"a">>]}

\* Seconds that pass before a chunk arrives.
Pauses == {0, HeaderGap}

\* _process_stream is entered: empty buffers, not thinking, the transcript
\* of a fresh ResponseBuffer.
NewStream ==
    [pc |-> "read", now |-> 0, received |-> <<>>,
     in_thinking_mode |-> FALSE, reasoning |-> <<>>, response |-> <<>>,
     full_response |-> <<>>, flushes |-> <<>>, buffer |-> <<>>,
     logger |-> NewLogger(0)]

\* async for chunk in stream: one chunk is handled.
Receive ==
    /\ stream.pc = "read"
    /\ Len(stream.received) < MaxFragments
    /\ \E delta \in Deltas, d \in Pauses :
         stream' = [take_chunk(stream, delta, stream.now + d)
                       EXCEPT !.now = stream.now + d,
                              !.received = Append(@, delta)]
    /\ UNCHANGED <<lifecycle_vars, disk, retry, sched, fs, analyzer>>

\* The stream raises: except Exception logs the error and re-raises.
SourceRaises ==
    /\ stream.pc = "read"
    /\ stream' = [stream EXCEPT !.pc = "raised"]
    /\ UNCHANGED <<lifecycle_vars, disk, retry, sched, fs, analyzer>>

\* The stream ends.
EndOfStream ==
    /\ stream.pc = "read"
    /\ \E d \in Pauses :
         stream' = [finish(stream, stream.now + d)
                       EXCEPT !.pc = "done", !.now = stream.now + d]
    /\ UNCHANGED <<lifecycle_vars, disk, retry, sched, fs, analyzer>>

InitStream ==
    /\ LifecycleIdle
    /\ retry = RetryIdle
    /\ sched = SchedIdle
    /\ fs = FsIdle
    /\ stream = NewStream
    /\ analyzer = AnalyzerIdle

NextStream == Receive \/ SourceRaises \/ EndOfStream

SpecStream == InitStream /\ [][NextStream]_vars

(* PositionExtractor.  A text is a sequence of elements: a label ("Stop     *)
(* Loss:"), a word ("BUY", "N/A"), or one character (a digit, ",", ".",     *)
(* " ", "*", "[", "]", "$", "%").  A number is in hundredths, as a price.   *)

Digits == {"0", "1", "2", "3", "4", "5", "6", "7", "8", "9"}

DigitValue(c) ==
    CASE c = "0" -> 0 [] c = "1" -> 1 [] c = "2" -> 2 [] c = "3" -> 3
      [] c = "4" -> 4 [] c = "5" -> 5 [] c = "6" -> 6 [] c = "7" -> 7
      [] c = "8" -> 8 [] c = "9" -> 9

\* The end of the longest stretch of elements of the set that begins at i
\* (i - 1 when text[i] is not one of them).
RECURSIVE RunEnd(_, _, _)
RunEnd(text, i, set) ==
    IF i <= Len(text) /\ text[i] \in set THEN RunEnd(text, i + 1, set) ELSE i - 1

\* [\s*]* and then an optional opening element (\[? or \$?): the index of the
\* first element of the group.
GroupStart(text, i, opening) ==
    LET j == RunEnd(text, i + 1, {" ", "*"}) + 1
    IN  IF j <= Len(text) /\ text[j] = opening THEN j + 1 ELSE j

\* pattern.search(text) for a pattern "label, filler, one of the words":
\* the word of the leftmost match, <<>> when nothing matches.
SearchWord(text, labels, words) ==
    LET hits == {i \in DOMAIN text :
                    /\ text[i] \in labels
                    /\ GroupStart(text, i, "[") <= Len(text)
                    /\ text[GroupStart(text, i, "[")] \in words}
    IN  IF hits = {} THEN <<>>
        ELSE LET i == CHOOSE i \in hits : \A k \in hits : i <= k
             IN  <<text[GroupStart(text, i, "[")]>>

\* pattern.search(text) for ([0-9,.]+) after the label and an optional "$":
\* the characters of the group, <<>> when nothing matches.
SearchNumber(text, label) ==
    LET chars == Digits \cup {",", "."}
        hits == {i \in DOMAIN text :
                    /\ text[i] = label
                    /\ RunEnd(text, GroupStart(text, i, "$"), chars)
                          >= GroupStart(text, i, "$")}
    IN  IF hits = {} THEN <<>>
        ELSE LET i == CHOOSE i \in hits : \A k \in hits : i <= k
                 j == GroupStart(text, i, "$")
             IN  <<SubSeq(text, j, RunEnd(text, j, chars))>>

\* str.replace(',', '')
without_commas(run) == SelectSeq(run, LAMBDA c : c # ",")

\* float() accepts the characters: digits with at most one "." among them.
is_float(run) ==
    /\ \E i \in DOMAIN run : run[i] \in Digits
    /\ Cardinality({i \in DOMAIN run : run[i] = "."}) <= 1

RECURSIVE Decimal(_)
Decimal(digits) ==
    IF digits = <<>> THEN 0
    ELSE 10 * Decimal(SubSeq(digits, 1, Len(digits) - 1))
         + DigitValue(digits[Len(digits)])

\* float(run), in hundredths; the texts carry at most two decimals.
float(run) ==
    LET dot == IF \E i \in DOMAIN run : run[i] = "."
               THEN CHOOSE i \in DOMAIN run : run[i] = "." ELSE Len(run) + 1
        whole == SubSeq(run, 1, dot - 1)
        cents == IF dot > Len(run) THEN <<>>
                 ELSE SubSeq(run \o <<"0", "0">>, dot + 1, dot + 2)
    IN  100 * Decimal(whole) + (IF cents = <<>> THEN 0 ELSE Decimal(cents))

\* A level whose malformed number yields None.
Mutant_extract_level(text, label) ==
    LET match == SearchNumber(text, label)
    IN  IF match = <<>> \/ ~is_float(without_commas(match[1])) THEN [value |-> <<>>]
        ELSE [value |-> <<float(without_commas(match[1]))>>]

\* What float raises for characters that are no number.
ValueError == [raised |-> "ValueError"]

Raised(v) == "raised" \in DOMAIN v

\* float(m.group(1).replace(',', '')) if m else None: the value, <<>> for
\* None, or the ValueError of float.
extract_level(text, label) ==
    LET match == SearchNumber(text, label)
    IN  IF match = <<>> THEN [value |-> <<>>]
        ELSE IF is_float(without_commas(match[1]))
        THEN [value |-> <<float(without_commas(match[1]))>>]
        ELSE ValueError

\* extract_position_size: (\d+(?:\.\d+)?) after the label, matched without
\* regard to case, and an optional "["; the percentage divided by 100, in
\* hundredths of the portfolio.
extract_position_size(text) ==
    LET label == {"Position Size:", "position size:"}
        hits == {i \in DOMAIN text :
                    /\ text[i] \in label
                    /\ GroupStart(text, i, "[") <= Len(text)
                    /\ text[GroupStart(text, i, "[")] \in Digits}
    IN  IF hits = {} THEN <<>>
        ELSE LET i == CHOOSE i \in hits : \A k \in hits : i <= k
                 j == GroupStart(text, i, "[")
                 k == RunEnd(text, j, Digits)
                 m == IF k + 2 <= Len(text) /\ text[k + 1] = "."
                         /\ text[k + 2] \in Digits
                      THEN RunEnd(text, k + 2, Digits) ELSE k
             IN  <<float(SubSeq(text, j, m)) \div 100>>

\* extract_trading_info: the five searches, then the tuple; a float that
\* raises leaves no tuple.
extract_trading_info(text) ==
    LET signal == SearchWord(text, {"Signal:"}, {"CLOSE", "BUY", "SELL", "HOLD"})
        confidence == SearchWord(text, {"Confidence:"}, {"HIGH", "MEDIUM", "LOW"})
        stop_loss == extract_level(text, "Stop Loss:")
        take_profit == extract_level(text, "Take Profit:")
        position_size == extract_position_size(text)
    IN  IF Raised(stop_loss) \/ Raised(take_profit) THEN ValueError
        ELSE [signal |-> IF signal # <<>> THEN signal[1] ELSE "HOLD",
              confidence |-> IF confidence # <<>> THEN confidence[1] ELSE "MEDIUM",
              stop_loss |-> stop_loss.value,
              take_profit |-> take_profit.value,
              position_size |-> position_size]

\* The lines an analysis may hold for each field; <<>> is no line.
SignalLines ==
    {<<>>, <<"Signal:", " ", "BUY">>, <<"Signal:", " ", "*", "*", "[", "CLOSE", "]">>,
     <<"Signal:", " ", "WAIT">>}

ConfidenceLines ==
    {<<>>, <<"Confidence:", " ", "HIGH">>, <<"confidence:", " ", "LOW">>}

StopLossLines ==
    {<<>>,
     <<"Stop Loss:", " ", "$", "9", "7", ".", "0", "0">>,
     <<"Stop Loss:", " ", "9", ",", "7", "0", "0">>,
     <<"Stop Loss:", " ", "9", "7", ".", "0", "0", ".">>,
     <<"Stop Loss:", " ", "N/A">>,
     <<"Stop Loss:", " ", "near", " ", "9", "7">>}

TakeProfitLines ==
    {<<>>,
     <<"Take Profit:", " ", "1", "1", "0", ".", "0", "0", ",">>,
     <<"Take Profit:", " ", ".", ".", ".">>}

PositionSizeLines ==
    {<<>>, <<"Position Size:", " ", "2", "0", "%">>,
     <<"position size:", " ", "[", "5", "]", "%">>,
     <<"Position Size:", " ", "small">>}

AnalysisLines ==
    [signal : SignalLines, confidence : ConfidenceLines, stop_loss : StopLossLines,
     take_profit : TakeProfitLines, position_size : PositionSizeLines]

\* The lines as a text, in the order of the prompt's template or reversed.
Composed(lines, order) ==
    LET parts == <<lines.signal, lines.confidence, lines.stop_loss,
                   lines.take_profit, lines.position_size>>
        at(k) == IF order = "template" THEN parts[k] ELSE parts[6 - k]
    IN  at(1) \o <<"\n">> \o at(2) \o <<"\n">> \o at(3) \o <<"\n">>
        \o at(4) \o <<"\n">> \o at(5)

\* process_analysis calls extract_trading_info(analysis).
Extract ==
    /\ analyzer.pc = "text"
    /\ LET info == extract_trading_info(analyzer.text)
       IN  analyzer' = IF Raised(info)
                       THEN [analyzer EXCEPT !.pc = "raised", !.info = info]
                       ELSE [analyzer EXCEPT !.pc = "extracted", !.info = info]
    /\ UNCHANGED <<lifecycle_vars, disk, retry, sched, fs, stream>>

InitExtract ==
    /\ LifecycleIdle
    /\ retry = RetryIdle
    /\ sched = SchedIdle
    /\ fs = FsIdle
    /\ stream = StreamIdle
    /\ \E lines \in AnalysisLines, order \in {"template", "reversed"} :
          analyzer = [pc |-> "text", lines |-> lines, order |-> order,
                      text |-> Composed(lines, order), info |-> NoAnalysis]

NextExtract == Extract

SpecExtract == InitExtract /\ [][NextExtract]_vars

(* One analysis after another: analyze_trend builds the prompt with the     *)
(* cached previous response, send_prompt calls the model (falling back on   *)
(* a connection error or timeout), _send_data_to_ai_model cleans and caches *)
(* the response.  The response of cycle n is <<"response", n>>.             *)

\* Analyses explored.
MaxCycles == 3

\* Nested send_prompt calls the interpreter allows before RecursionError.
MaxCalls == 4

NoPreviousAnalysis == <<"No previous analysis available.">>

\* load_previous_response() or "No previous analysis available."
previous_response(file) == IF file = <<>> THEN NoPreviousAnalysis ELSE file[1]

\* What a model call may do: stream a response to its end, raise
\* APIConnectionError or TimeoutError, or raise something else (a status
\* error, an error of the stream).
ModelOutcomes == {"ok", "APIConnectionError", "TimeoutError", "error"}

\* send_prompt's handler: except (APIConnectionError, TimeoutError) switches
\* to the fallback settings and calls send_prompt again; anything else goes
\* up.
on_model_error(outcome) ==
    IF outcome \in {"APIConnectionError", "TimeoutError"} THEN "fallback" ELSE "raise"

\* analyze_trend up to the model call: the prompt gets the cached response.
BuildPrompt ==
    /\ analyzer.pc = "prompt"
    /\ analyzer.cycle < MaxCycles
    /\ analyzer' = [analyzer EXCEPT
                       !.pc = "send",
                       !.cycle = @ + 1,
                       !.calls = 0,
                       !.raised = "none",
                       !.prompt_previous =
                           previous_response(analyzer.previous_response_file)]
    /\ UNCHANGED <<lifecycle_vars, disk, retry, sched, fs, stream>>

\* One pass through send_prompt: chat.completions.create and _process_stream.
\* A connection error or timeout is answered by a nested send_prompt with the
\* fallback client, whose own handler does the same; the nesting ends with
\* the interpreter's RecursionError, which the enclosing handlers turn into
\* RuntimeError("All available models failed").
SendPrompt ==
    /\ analyzer.pc = "send"
    /\ \E outcome \in ModelOutcomes :
         LET called == [analyzer EXCEPT !.calls = @ + 1]
         IN  analyzer' =
               IF outcome = "ok"
               THEN [called EXCEPT !.pc = "respond"]
               ELSE IF on_model_error(outcome) = "fallback"
               THEN IF called.calls < MaxCalls
                    THEN [called EXCEPT !.settings = "fallback"]
                    ELSE [called EXCEPT !.settings = "fallback", !.pc = "failed",
                                        !.raised = "RuntimeError"]
               ELSE [called EXCEPT !.pc = "failed",
                                   !.raised = IF analyzer.calls = 0 THEN outcome
                                              ELSE "RuntimeError"]
    /\ UNCHANGED <<lifecycle_vars, disk, retry, sched, fs, stream>>

\* _send_data_to_ai_model after send_prompt returned: the cleaned response is
\* cached and returned.
SaveResponse ==
    /\ analyzer.pc = "respond"
    /\ LET cleaned_response == <<"response", analyzer.cycle>>
       IN  analyzer' = [analyzer EXCEPT
                           !.pc = "prompt",
                           !.previous_response_file = <<cleaned_response>>,
                           !.analysis = cleaned_response]
    /\ UNCHANGED <<lifecycle_vars, disk, retry, sched, fs, stream>>

\* _send_data_to_ai_model's handler: the failure is logged and "HOLD"
\* returned; save_previous_response is not reached.
ReturnHold ==
    /\ analyzer.pc = "failed"
    /\ analyzer' = [analyzer EXCEPT !.pc = "prompt", !.analysis = <<"HOLD">>]
    /\ UNCHANGED <<lifecycle_vars, disk, retry, sched, fs, stream>>

\* The first start: no previous_response.json, the primary model settings.
InitAnalysis ==
    /\ LifecycleIdle
    /\ retry = RetryIdle
    /\ sched = SchedIdle
    /\ fs = FsIdle
    /\ stream = StreamIdle
    /\ analyzer = [pc |-> "prompt", cycle |-> 0, calls |-> 0,
                   settings |-> "primary", raised |-> "none",
                   previous_response_file |-> <<>>,
                   prompt_previous |-> NoPreviousAnalysis,
                   analysis |-> <<>>]

NextAnalysis == BuildPrompt \/ SendPrompt \/ SaveResponse \/ ReturnHold

SpecAnalysis == InitAnalysis /\ [][NextAnalysis]_vars

(* A tick whose model call failed: analyze_trend returns the text "HOLD". *)

\* A text the handlers do not return.
Mutant_analysis_on_failure == <<"Signal:", " ", "CLOSE">>

\* The handlers of analyze_trend and _send_data_to_ai_model: return "HOLD".
analysis_on_failure == <<"HOLD">>

\* await analyzer.analyze_trend(ohlcv_data) when send_prompt or the stream
\* raised; process_analysis then extracts the tuple from the returned text.
\* The text has no field a number is read from, so the extraction returns.
AnalyzeFails ==
    /\ pc = "analyze"
    /\ analysis' = extract_trading_info(analysis_on_failure)
    /\ pre' = [pre EXCEPT !.stage = "model_failed"]
    /\ pc' = "apply"
    /\ UNCHANGED <<current_position, positions_file, history_file, price, now>>
    /\ UNCHANGED <<disk, outside>>

NextModelFails == Next \/ AnalyzeFails

SpecModelFails == Init /\ [][NextModelFails]_vars

----------------------------------------------------------------------------
(* Properties.  pre holds the lifecycle state and the price as they were    *)
(* when the last lifecycle call (the breach check or process_analysis)      *)
(* began; pre.breached is the reason the tick's breach check closed for.    *)

Ledger == history_file.entries
PreLedger == pre.history_file.entries

Applied == pre.op = "apply"
Checked == pre.op = "check"

WasOpen == pre.position # <<>>
WasFlat == pre.position = <<>>

\* The last lifecycle call took the position from open to absent.
Closed == WasOpen /\ current_position = <<>>

\* The ledger is the ledger before the call plus one entry.
OneAppended == Len(Ledger) = Len(PreLedger) + 1 /\ SubSeq(Ledger, 1, Len(PreLedger)) = PreLedger

\* positions.json holds the fields of position q, its entry_time as text.
Persisted(q) ==
    /\ positions_file # <<>>
    /\ DOMAIN positions_file[1] =
           {"entry_price", "stop_loss", "take_profit", "size", "entry_time",
            "confidence", "direction"}
    /\ positions_file[1].entry_price = q.entry_price
    /\ positions_file[1].stop_loss = q.stop_loss
    /\ positions_file[1].take_profit = q.take_profit
    /\ positions_file[1].size = q.size
    /\ positions_file[1].entry_time = <<"iso", q.entry_time>>
    /\ positions_file[1].confidence = q.confidence
    /\ positions_file[1].direction = q.direction

Untouched ==
    /\ current_position = pre.position
    /\ positions_file = pre.positions_file
    /\ history_file = pre.history_file

\* C1 (as stated): in a tick whose breach check closed the position, the tick's
\* signal is not applied: the tick ends FLAT and the ledger holds nothing after
\* the CLOSE_* entry.
C1_SignalSkippedAfterBreach ==
    (pc = "wait" /\ pre.breached # "none") =>
        /\ current_position = <<>>
        /\ IsCloseAction(Ledger[Len(Ledger)].action)

\* C1 (amended): in a tick whose breach check closed the position, the tick's
\* signal is still applied, to the FLAT state the close left: BUY/SELL opens a
\* position at the tick's price and appends its entry right after the CLOSE_*
\* entry; CLOSE and HOLD leave FLAT with the CLOSE_* entry last.
C1_SignalAppliedAfterBreach ==
    (pc = "wait" /\ pre.breached # "none") =>
        /\ Applied /\ WasFlat
        /\ PreLedger # <<>>
        /\ IsCloseAction(PreLedger[Len(PreLedger)].action)
        /\ PreLedger[Len(PreLedger)].timestamp = now
        /\ IF analysis.signal \in {"BUY", "SELL"}
           THEN /\ current_position # <<>>
                /\ current_position[1].entry_price = price
                /\ current_position[1].direction =
                       (IF analysis.signal = "BUY" THEN "LONG" ELSE "SHORT")
                /\ OneAppended
                /\ Ledger[Len(Ledger)].action = analysis.signal
                /\ Ledger[Len(Ledger)].timestamp = now
           ELSE Untouched

\* A tick ended in which the stop loss closed a LONG and the BUY of the same
\* tick opened a new one.
C1_Witness ==
    /\ pc = "wait" /\ pre.breached = "stop_loss" /\ Applied
    /\ analysis.signal = "BUY"
    /\ current_position # <<>>
    /\ Len(Ledger) >= 3
    /\ Ledger[Len(Ledger) - 1].action = "CLOSE_LONG"
    /\ Ledger[Len(Ledger)].action = "BUY"

\* C2: the breach check closes a LONG position exactly when price <= stop_loss
\* or price >= take_profit and a SHORT position exactly when price >= stop_loss
\* or price <= take_profit; a price strictly inside the two levels leaves the
\* position, positions.json and the ledger as they were.
C2_BreachExactly ==
    (Checked /\ WasOpen) =>
        LET p == pre.position[1]
            hit == IF p.direction = "LONG"
                   THEN pre.price <= p.stop_loss \/ pre.price >= p.take_profit
                   ELSE pre.price >= p.stop_loss \/ pre.price <= p.take_profit
            inside == IF p.direction = "LONG"
                      THEN p.stop_loss < pre.price /\ pre.price < p.take_profit
                      ELSE p.take_profit < pre.price /\ pre.price < p.stop_loss
        IN  /\ (current_position = <<>>) <=> hit
            /\ inside => Untouched
            /\ ~hit => Untouched

\* The breach check met a price equal to the stop loss of a LONG and closed it.
C2_Witness ==
    /\ Checked /\ WasOpen
    /\ pre.position[1].direction = "LONG"
    /\ pre.price = pre.position[1].stop_loss
    /\ current_position = <<>>

\* The breach check met a price strictly inside the levels of a SHORT and kept it.
C2_WitnessInside ==
    /\ Checked /\ WasOpen
    /\ pre.position[1].direction = "SHORT"
    /\ pre.position[1].take_profit < pre.price
    /\ pre.price < pre.position[1].stop_loss
    /\ current_position # <<>>

\* C3: the ledger is append-only: a step that changes trade_history.json adds
\* exactly one entry to the stored entries and keeps every stored entry in
\* place, also when the file is unreadable or holds an entry without a
\* required field.
C3_AppendOnly ==
    [][history_file' # history_file =>
          /\ Len(history_file'.entries) = Len(history_file.entries) + 1
          /\ SubSeq(history_file'.entries, 1, Len(history_file.entries))
                 = history_file.entries]_vars

\* C4: in FLAT, BUY at price p opens a LONG and SELL a SHORT with entry_price p;
\* levels the extractor does not supply default to 0.98p / 1.04p (LONG) and
\* 1.02p / 0.96p (SHORT), a size it does not supply to 0.1; exactly one entry
\* with the signal as action is appended and the position is persisted.
C4_OpenFromFlat ==
    (Applied /\ WasFlat /\ analysis.signal \in {"BUY", "SELL"}) =>
        /\ current_position # <<>>
        /\ LET q == current_position[1]
               long == analysis.signal = "BUY"
           IN  /\ q.direction = (IF long THEN "LONG" ELSE "SHORT")
               /\ q.entry_price = pre.price
               /\ analysis.stop_loss = <<>> =>
                      100 * q.stop_loss = (IF long THEN 98 ELSE 102) * pre.price
               /\ analysis.take_profit = <<>> =>
                      100 * q.take_profit = (IF long THEN 104 ELSE 96) * pre.price
               /\ analysis.position_size = <<>> => 10 * q.size = 100
               /\ (long /\ pre.price = 10000 /\ analysis.stop_loss = <<>>
                        /\ analysis.take_profit = <<>> /\ analysis.position_size = <<>>)
                    => (q.stop_loss = 9800 /\ q.take_profit = 10400 /\ q.size = 10)
               /\ OneAppended
               /\ Ledger[Len(Ledger)].action = analysis.signal
               /\ Ledger[Len(Ledger)].price = pre.price
               /\ Persisted(q)

\* BUY at 100.00 with no levels and no size was applied in FLAT.
C4_Witness ==
    /\ Applied /\ WasFlat /\ pre.price = 10000
    /\ analysis = [signal |-> "BUY", confidence |-> "HIGH", stop_loss |-> <<>>,
                   take_profit |-> <<>>, position_size |-> <<>>]
    /\ current_position # <<>>
    /\ current_position[1].stop_loss = 9800
    /\ Len(Ledger) = 1

\* SELL with no levels was applied in FLAT.
C4_WitnessShort ==
    /\ Applied /\ WasFlat /\ analysis.signal = "SELL"
    /\ analysis.stop_loss = <<>> /\ analysis.take_profit = <<>>
    /\ current_position # <<>>

\* C5: every close, by breach (stop_loss, take_profit) or by the signal CLOSE
\* (analysis_signal), appends exactly one entry whose action is CLOSE_LONG for
\* a LONG and CLOSE_SHORT for a SHORT position and whose reasoning holds the
\* reason, makes the position absent and removes positions.json.
C5_CloseWritesOneEntry ==
    LET p == pre.position[1]
        breach == IF p.direction = "LONG"
                  THEN IF pre.price <= p.stop_loss THEN "stop_loss"
                       ELSE IF pre.price >= p.take_profit THEN "take_profit"
                       ELSE "none"
                  ELSE IF pre.price >= p.stop_loss THEN "stop_loss"
                       ELSE IF pre.price <= p.take_profit THEN "take_profit"
                       ELSE "none"
        reason == IF Checked THEN breach ELSE "analysis_signal"
        due == WasOpen /\ (IF Checked THEN breach # "none"
                           ELSE Applied /\ analysis.signal = "CLOSE")
    IN  /\ Closed => due
        /\ due =>
             /\ current_position = <<>>
             /\ positions_file = <<>>
             /\ OneAppended
             /\ Ledger[Len(Ledger)].action =
                    (IF p.direction = "LONG" THEN "CLOSE_LONG" ELSE "CLOSE_SHORT")
             /\ Ledger[Len(Ledger)].reasoning = <<"Position closed", reason>>
             /\ Ledger[Len(Ledger)].price = pre.price

\* The signal CLOSE closed a SHORT position.
C5_Witness ==
    /\ Applied /\ Closed /\ analysis.signal = "CLOSE"
    /\ pre.position[1].direction = "SHORT"
    /\ Ledger[Len(Ledger)].action = "CLOSE_SHORT"
    /\ Ledger[Len(Ledger)].reasoning = <<"Position closed", "analysis_signal">>

\* A price of 97.00 closed the LONG entered at 100.00 with levels 98.00, 104.00.
C5_WitnessBreach ==
    /\ Checked /\ Closed /\ pre.price = 9700
    /\ pre.position[1].direction = "LONG"
    /\ pre.position[1].entry_price = 10000
    /\ pre.position[1].stop_loss = 9800
    /\ pre.position[1].take_profit = 10400
    /\ Ledger[Len(Ledger)].action = "CLOSE_LONG"
    /\ Ledger[Len(Ledger)].reasoning = <<"Position closed", "stop_loss">>

\* C6 (as stated): in OPEN, a signal other than CLOSE that provides a stop_loss
\* and/or take_profit differing from the position's sets the position's level
\* to the provided value and persists the position.
C6_AdjustAnyProvided ==
    (Applied /\ WasOpen /\ analysis.signal # "CLOSE") =>
        /\ current_position # <<>>
        /\ (analysis.stop_loss # <<>>
                /\ analysis.stop_loss[1] # pre.position[1].stop_loss)
             => (current_position[1].stop_loss = analysis.stop_loss[1]
                 /\ Persisted(current_position[1]))
        /\ (analysis.take_profit # <<>>
                /\ analysis.take_profit[1] # pre.position[1].take_profit)
             => (current_position[1].take_profit = analysis.take_profit[1]
                 /\ Persisted(current_position[1]))

\* C6 (amended): in OPEN, a signal other than CLOSE that provides a non-zero
\* stop_loss and/or take_profit differing from the position's sets that level
\* to the provided value and persists the position, so that positions.json
\* equals the position in memory; a provided 0 is ignored like an absent value.
C6_AdjustNonZeroProvided ==
    (Applied /\ WasOpen /\ analysis.signal # "CLOSE") =>
        /\ current_position # <<>>
        /\ LET old == pre.position[1]
               q == current_position[1]
               sl == analysis.stop_loss
               tp == analysis.take_profit
               given_sl == sl # <<>> /\ sl[1] # 0
               given_tp == tp # <<>> /\ tp[1] # 0
           IN  /\ q.stop_loss = (IF given_sl THEN sl[1] ELSE old.stop_loss)
               /\ q.take_profit = (IF given_tp THEN tp[1] ELSE old.take_profit)
               /\ ((given_sl /\ sl[1] # old.stop_loss)
                      \/ (given_tp /\ tp[1] # old.take_profit))
                    => Persisted(q)

\* HOLD with a take_profit alone moved the take_profit of an open position.
C6_Witness ==
    /\ Applied /\ WasOpen /\ analysis.signal = "HOLD"
    /\ analysis.stop_loss = <<0>> /\ analysis.take_profit = <<11000>>
    /\ pre.position[1].take_profit # 11000
    /\ current_position # <<>>
    /\ current_position[1].take_profit = 11000
    /\ current_position[1].stop_loss = pre.position[1].stop_loss
    /\ Persisted(current_position[1])

\* C7: while a position is open, a signal other than CLOSE never changes its
\* direction, entry_price, size, entry_time or confidence, opens no second
\* position and appends no ledger entry.
C7_AdjustFrame ==
    (Applied /\ WasOpen /\ analysis.signal # "CLOSE") =>
        /\ current_position # <<>>
        /\ current_position[1].direction = pre.position[1].direction
        /\ current_position[1].entry_price = pre.position[1].entry_price
        /\ current_position[1].size = pre.position[1].size
        /\ current_position[1].entry_time = pre.position[1].entry_time
        /\ current_position[1].confidence = pre.position[1].confidence
        /\ history_file = pre.history_file

\* BUY with its own levels, size and confidence met a SHORT opened at another
\* price in an earlier tick.
C7_Witness ==
    /\ Applied /\ WasOpen /\ analysis.signal = "BUY"
    /\ analysis.confidence = "MEDIUM" /\ analysis.position_size = <<20>>
    /\ pre.position[1].direction = "SHORT"
    /\ pre.position[1].confidence = "HIGH"
    /\ pre.position[1].size = 10
    /\ pre.position[1].entry_price # pre.price
    /\ pre.position[1].entry_time < now
    /\ current_position # <<>>
    /\ current_position[1].stop_loss # pre.position[1].stop_loss

\* C8: in FLAT, the signals CLOSE and HOLD change nothing: the position stays
\* absent, positions.json is not written and the ledger is unchanged.
C8_FlatNoOp ==
    (Applied /\ WasFlat /\ analysis.signal \in {"CLOSE", "HOLD"}) =>
        /\ current_position = <<>>
        /\ positions_file = pre.positions_file
        /\ history_file = pre.history_file

\* CLOSE was applied in FLAT after an earlier position had been closed.
C8_Witness ==
    /\ Applied /\ WasFlat /\ analysis.signal = "CLOSE"
    /\ positions_file = <<>>
    /\ Len(Ledger) = 2

\* The rational <<n, d>> is ((exit - entry) / entry) * size * 100 for a LONG and
\* ((entry - exit) / entry) * size * 100 for a SHORT, size being a fraction that
\* the model holds in hundredths.
IsPnl(r, long, entry, exit, size) ==
    /\ r[2] > 0
    /\ r[1] * entry = r[2] * (IF long THEN exit - entry ELSE entry - exit) * size

C9_WitnessShort ==
    /\ Closed
    /\ pre.position[1].direction = "SHORT"
    /\ Ledger[Len(Ledger)].pnl[1] < 0

\* The indices of the BUY/SELL entries among the first n entries of h that no
\* CLOSE_* entry among them has matched, oldest first: a CLOSE_* entry matches
\* the nearest unmatched BUY/SELL entry before it.
RECURSIVE Unmatched(_, _)
Unmatched(h, n) ==
    IF n = 0 THEN <<>>
    ELSE LET st == Unmatched(h, n - 1)
         IN  IF h[n].action \in {"BUY", "SELL"} THEN Append(st, n)
             ELSE IF IsCloseAction(h[n].action) /\ st # <<>>
                  THEN SubSeq(st, 1, Len(st) - 1)
                  ELSE st

RecordAgrees ==
    /\ positions_file = <<>> <=> current_position = <<>>
    /\ current_position # <<>> => Persisted(current_position[1])

C11_WitnessClose ==
    /\ Checked /\ Closed
    /\ pre.positions_file # <<>>
    /\ positions_file = <<>>


\* C14: loading the record written for a position p gives a position with
\* p's entry_price, stop_loss, take_profit, size, entry_time, confidence and
\* direction; loading after the absent position was saved, or with no file,
\* gives no position.  A restarted process therefore holds the position the
\* stopped one held.
C14_LoadAfterSave ==
    /\ load_position(save_position(positions_file, current_position)) = current_position
    /\ load_position(save_position(positions_file, <<>>)) = <<>>
    /\ load_position(<<>>) = <<>>
    /\ pre.op = "load" => current_position = pre.position

\* A restart loaded a SHORT of HIGH confidence opened in an earlier tick.
C14_Witness ==
    /\ pre.op = "load"
    /\ current_position # <<>>
    /\ current_position[1].direction = "SHORT"
    /\ current_position[1].confidence = "HIGH"
    /\ current_position[1].entry_time = 1
    /\ now = 2
    /\ positions_file # <<>>
    /\ positions_file[1].entry_time = <<"iso", 1>>

\* A restart after a close found no file and loaded no position.
C14_WitnessFlat ==
    /\ pre.op = "load"
    /\ Len(Ledger) = 2
    /\ positions_file = <<>>
    /\ current_position = <<>>


\* C12: when a write of the position record has failed, the position in memory
\* is kept and a later tick persists it again: at the end of a tick that ran
\* with writes succeeding, the record agrees with the in-memory position.
C12_PersistedAfterRecovery ==
    (Applied /\ pre.disk = "ok") => RecordAgrees


\* C13: a reader running while positions.json or trade_history.json is being
\* rewritten gets the whole file as it was before the write or the whole file
\* as it is after it, never an empty or partly written one.
C13_ReaderSeesWholeFile ==
    fs.observed # <<>> => fs.observed[1] \in {fs.old, fs.new}



\* C15: the delay slept before the n-th retry of one call is
\* min(initial_delay * backoff_factor^(n-1), max_delay); with initial_delay 1,
\* backoff_factor 2 and max_delay 3600, three retries sleep 1, 2 and 4.
C15_BackoffDelays ==
    /\ \A n \in 1..Len(retry.slept) :
         retry.slept[n] =
             Min(retry.initial_delay * Pow(retry.backoff_factor, n - 1), retry.max_delay)
    /\ Len(retry.slept) = retry.retries - (IF retry.pc = "sleep" THEN 1 ELSE 0)
    /\ (/\ retry.initial_delay = 1 /\ retry.backoff_factor = 2
        /\ retry.max_delay = 3600 /\ Len(retry.slept) = 3)
           => retry.slept = <<1, 2, 4>>
    /\ (/\ retry.initial_delay = 1 /\ retry.backoff_factor = 2
        /\ retry.max_delay = 3 /\ Len(retry.slept) = 3)
           => retry.slept = <<1, 2, 3>>

\* A call with the default settings was retried three times and then returned.
C15_Witness ==
    /\ retry.pc = "returned" /\ retry.result = "value"
    /\ retry.max_retries = -1
    /\ retry.initial_delay = 1 /\ retry.backoff_factor = 2 /\ retry.max_delay = 3600
    /\ Len(retry.calls) = 4
    /\ retry.slept = <<1, 2, 4>>

\* A delay was cut to max_delay.
C15_WitnessCapped ==
    /\ retry.initial_delay = 2 /\ retry.backoff_factor = 3 /\ retry.max_delay = 5
    /\ retry.slept = <<2, 5, 5>>


\* The error the last invocation of the operation raised.
LastError(types) == retry.last # <<>> /\ retry.last[1].type \in types

\* The wrapper has raised the last invocation's error to its caller.
Propagated == retry.pc = "raised" /\ retry.raised = retry.last

\* C16: a fatal error (bad symbol, bad request, authentication failure) is
\* raised to the caller on its first occurrence, with no sleep and no further
\* invocation, whatever its message says.
C16_FatalPropagated ==
    LastError(FatalTypes) => Propagated

\* An error the wrapper's description puts in no class: neither transient or
\* rate-limited nor fatal.
Unclassified(e) ==
    /\ e # Success
    /\ e.type \notin TransientTypes \cup FatalTypes
    /\ ~(e.type \in ExchangeErrorTypes /\ HasRateLimitText(e.text))

\* C17 as stated: every unclassified error is logged and raised to the caller
\* on its first occurrence.
C17_UnclassifiedLoggedAndRaised ==
    (retry.last # <<>> /\ Unclassified(retry.last[1]))
        => (Propagated /\ retry.errors > 0)

\* C17: an unclassified error is raised to the caller on its first occurrence
\* and the operation is not invoked again; it is logged (twice, as an error)
\* unless it is an exchange error, which is raised without a log entry.
C17_UnclassifiedRaised ==
    /\ (retry.last # <<>> /\ Unclassified(retry.last[1]))
          => /\ Propagated
             /\ retry.errors =
                    (IF retry.last[1].type \in ExchangeErrorTypes THEN 0 ELSE 2)
    /\ (Unclassified(retry.final) /\ Len(retry.calls) > retry.fails)
          => /\ Propagated
             /\ Len(retry.calls) = retry.fails + 1
             /\ Len(retry.slept) = retry.fails

\* A ValueError whose text speaks of a rate limit came after two retried
\* failures: it was logged and raised.
C17_Witness ==
    /\ retry.pc = "raised"
    /\ retry.raised = <<[type |-> "ValueError", text |-> <<"Rate", "limit", "exceeded">>]>>
    /\ retry.errors = 2
    /\ Len(retry.calls) = 3
    /\ Len(retry.slept) = 2

\* An exchange error without rate-limit text was raised unlogged.
C17_WitnessExchange ==
    /\ retry.pc = "raised"
    /\ retry.raised = <<[type |-> "InsufficientFunds", text |-> <<"too", "many", "requests">>]>>
    /\ retry.errors = 0

\* Every invocation the bounded loop allows fails with an error that is retried.
AlwaysFailing ==
    /\ retry.max_retries >= 0
    /\ retry.fails > retry.max_retries

\* C18: with a bounded max_retries and every attempt failing with a transient
\* error, the wrapper ends: it logs the exhaustion and returns None, raising
\* nothing, after max_retries + 1 invocations.
C18_ExhaustionReturnsNone ==
    AlwaysFailing ~>
        (/\ retry.pc = "returned" /\ retry.result = "None"
         /\ retry.raised = <<>>
         /\ retry.errors = 1
         /\ Len(retry.calls) = retry.max_retries + 1)

\* Two retries were allowed, three invocations failed, None came back.
C18_Witness ==
    /\ AlwaysFailing
    /\ retry.max_retries = 2
    /\ retry.kind.type = "NetworkError"
    /\ Len(retry.calls) = 3
    /\ retry.pc = "returned" /\ retry.result = "None"
    /\ retry.errors = 1

\* The operation fails a finite number of times, then succeeds, under
\* unbounded retries.
SucceedsInTheEnd == retry.max_retries = -1 /\ retry.final = Success

\* C19: with unbounded retries, an operation that fails with retried errors
\* finitely many times and then succeeds has its result returned in the end,
\* every invocation having received the call's arguments and one sleep having
\* followed each failure; a first attempt that succeeds returns with no sleep.
C19_EventuallyReturns ==
    SucceedsInTheEnd ~>
        (/\ retry.pc = "returned" /\ retry.result = "value"
         /\ Len(retry.calls) = retry.fails + 1
         /\ \A i \in 1..Len(retry.calls) : retry.calls[i] = retry.args
         /\ Len(retry.slept) = retry.fails
         /\ retry.errors = 0)

\* Three failures, three sleeps, then the result.
C19_Witness ==
    /\ SucceedsInTheEnd
    /\ retry.fails = 3
    /\ retry.pc = "returned" /\ retry.result = "value"
    /\ retry.calls = <<retry.args, retry.args, retry.args, retry.args>>
    /\ Len(retry.slept) = 3

\* The first attempt succeeded: nothing was slept.
C19_WitnessFirst ==
    /\ SucceedsInTheEnd
    /\ retry.fails = 0
    /\ retry.pc = "returned" /\ retry.result = "value"
    /\ Len(retry.calls) = 1
    /\ retry.slept = <<>>


\* The least multiple of m that is not below n.
CeilTimes(n, m) == CHOOSE b \in {k * m : k \in 0..(MaxBuckets + 2)} : b >= n /\ b - m < n

\* A wait without the fixed-delay override has ended.
AlignedWaitDone == sched.pc = "done" /\ sched.delay = <<>>

\* C20 as stated: without a fixed delay (and with no additional delay) the
\* scheduler sleeps until ceil(now / interval) * interval, also when now lies
\* on a boundary.
C20_SleepsUntilCeil ==
    (AlignedWaitDone /\ sched.add_delay = 0)
        => sched.woke_ms = CeilTimes(sched.current_time_ms, sched.interval * Ms)

\* C20: without a fixed delay the scheduler sleeps until the first boundary
\* after now, plus the additional delay: that is ceil(now / interval) * interval
\* when now is off a boundary, and now + interval when now is on one.
C20_SleepsUntilNextBoundary ==
    AlignedWaitDone =>
        LET interval_ms == sched.interval * Ms
            boundary == sched.woke_ms - sched.add_delay * Ms
        IN  /\ boundary % interval_ms = 0
            /\ boundary > sched.current_time_ms
            /\ boundary - interval_ms <= sched.current_time_ms
            /\ sched.current_time_ms % interval_ms # 0
                   => boundary = CeilTimes(sched.current_time_ms, interval_ms)
            /\ sched.current_time_ms % interval_ms = 0
                   => boundary = sched.current_time_ms + interval_ms

\* A wait that began exactly on the second 5-minute boundary slept 5 minutes.
C20_Witness ==
    /\ AlignedWaitDone
    /\ sched.interval = 300 /\ sched.add_delay = 0
    /\ sched.current_time_ms = 300000
    /\ sched.delay_ms = 300000
    /\ sched.woke_ms = 600000

\* A wait that began 1.5 seconds into a minute slept the other 58.5.
C20_WitnessInside ==
    /\ AlignedWaitDone
    /\ sched.interval = 60 /\ sched.add_delay = 0
    /\ sched.current_time_ms = 61500
    /\ sched.delay_ms = 58500


\* C21: an exception raised in a cycle body (wait, fetch, breach check,
\* analysis) is caught by the loop of periodic_check: the lifecycle state is
\* as it was, the 60-second sleep is under way and can end; when it has
\* ended the loop is at its next wait, with 60 seconds slept, and can start
\* another cycle.  No exception leaves the loop without a next step.
C21_CycleExceptionCooledDown ==
    /\ pre.op = "raise"
          => (pc = "cooldown" /\ Untouched /\ ENABLED Cooldown)
    /\ pre.op = "cooldown"
          => /\ pre.slept = 60
             /\ pc \in {"wait", "check"}
             /\ Untouched
             /\ (pc = "wait" /\ now < MaxTicks) => ENABLED Fetch
    /\ pc \in {"wait", "check", "analyze", "apply", "cooldown"}

\* The analysis of the second cycle raised while a position was open; after
\* the cooldown the third cycle came to its breach check.
C21_Witness ==
    /\ now = 3 /\ pc = "check"
    /\ pre.op = "cooldown" /\ pre.stage = "analyze" /\ pre.slept = 60
    /\ pre.position # <<>>
    /\ current_position = pre.position


\* C23: when the candle source returns an empty or absent result the cycle
\* ends there: no breach check and no signal is applied, the position, the
\* record and the ledger are as they were, the cooldown runs and the loop
\* goes on to its next wait.
C23_EmptyCandlesAbortCycle ==
    /\ (pre.op = "raise" /\ pre.stage \in {"none", "empty"})
          => (pc = "cooldown" /\ Untouched /\ price = pre.price)
    /\ (pre.op = "cooldown" /\ pre.stage \in {"none", "empty"})
          => (pc \in {"wait", "check"} /\ Untouched /\ pre.slept = 60)

\* An empty candle list came while a LONG was open whose stop the last price
\* had not reached: the cycle ended in the cooldown, the LONG as it was.
C23_Witness ==
    /\ pre.op = "raise" /\ pre.stage = "empty"
    /\ pc = "cooldown"
    /\ now = 2
    /\ current_position # <<>>
    /\ current_position[1].direction = "LONG"
    /\ positions_file # <<>>
    /\ Len(Ledger) = 1


\* C22: when the exchange's server time cannot be had (fetch_time is not
\* supported, or raises anything, a network error included), the wait is not
\* given up: the local clock is read, the delay computed from it and slept.
C22_TimeFallback ==
    sched.pc # "time" /\ sched.source # "server"
        => /\ sched.clock = "local"
           /\ sched.pc \in {"computed", "sleep", "done"}
           /\ sched.pc \in {"sleep", "done"}
                  => sched.delay_ms =
                         delay_ms(sched.current_time_ms, sched.interval * Ms,
                                  sched.delay, sched.add_delay)
           /\ sched.pc = "done"
                  => sched.woke_ms = sched.current_time_ms + sched.delay_ms

\* fetch_time raised a network error 1.5 seconds into an hour: the rest of the
\* hour was slept by the local clock.
C22_Witness ==
    /\ sched.pc = "done"
    /\ sched.source = "NetworkError"
    /\ sched.clock = "local"
    /\ sched.interval = 3600 /\ sched.delay = <<>> /\ sched.add_delay = 0
    /\ sched.current_time_ms = 1500
    /\ sched.woke_ms = 3600000


\* The last ledger entry is an opening one.
LedgerSaysOpen ==
    Len(Ledger) > 0 /\ Ledger[Len(Ledger)].action \in {"BUY", "SELL"}

\* positions.json and trade_history.json describe the same state: a record
\* exactly when the last ledger entry opened a position.
RecordMatchesLedger == (positions_file # <<>>) <=> LedgerSaysOpen

\* Between lifecycle calls the two files agree when nothing interrupts.
RecordMatchesLedgerAtRest == pc \in {"wait", "check", "analyze", "apply", "cooldown"} => RecordMatchesLedger

\* C24: when a shutdown request arrives at any point of a cycle, the process
\* stops with no position mutation half-applied: after exit the persisted
\* record and the ledger describe the same state.
C24_NoHalfAppliedMutation ==
    pc = "stopped" => RecordMatchesLedger

NetworkCalls == {"fetch_time", "fetch_ohlcv", "model_call"}

\* C25: a shutdown takes effect only at cycle boundaries and at sleep points,
\* never in the middle of a network call (candle fetch, server-time fetch,
\* model call).
C25_StopsOnlyAtBoundaryOrSleep ==
    pc = "stopped" =>
        /\ pre.stage \in {"boundary", "sleep"}
        /\ pre.stage \notin NetworkCalls



\* The "<think>" and "</think>" of a transcript, in order.
Markers(text) == SelectSeq(text, LAMBDA c : c \in {"<think>", "</think>"})

\* The texts of one phase over the received chunks, joined in arrival order.
RECURSIVE ReceivedText(_, _)
ReceivedText(received, field) ==
    IF received = <<>> THEN <<>>
    ELSE received[1][field] \o ReceivedText(Tail(received), field)

\* The flushed texts of one phase, joined in flush order.
RECURSIVE FlushedText(_, _)
FlushedText(flushes, phase) ==
    IF flushes = <<>> THEN <<>>
    ELSE (IF flushes[1].phase = phase THEN flushes[1].text ELSE <<>>)
         \o FlushedText(Tail(flushes), phase)

NonBlank(text) == SelectSeq(text, LAMBDA c : c \notin Whitespace)

Done == stream.pc = "done"
Transcript == stream.full_response

\* The line a flush of the text writes stands in the transcript.
Recorded(text) ==
    \E i \in DOMAIN Transcript :
        /\ i = 1 \/ Transcript[i - 1] = "\n"
        /\ i + Len(text) + 2 <= Len(Transcript)
        /\ SubSeq(Transcript, i, i + Len(text) + 2) = Indent \o text \o <<"\n">>

\* The buffer of the phase was written out as it stands.
WrittenOut(phase) ==
    /\ \E i \in DOMAIN stream.flushes :
          stream.flushes[i] = [phase |-> phase, text |-> strip(stream[phase])]
    /\ Recorded(strip(stream[phase]))

\* C26: for a stream that ends normally, the returned transcript with
\* everything between the thinking markers removed equals the answer
\* fragments joined in arrival order, however the text was cut into fragments.
C26_CleanedEqualsAnswer ==
    Done => _clean_response(stream.buffer[1]) = ReceivedText(stream.received, "content")

\* C27: when the stream raises, the pending buffers are flushed into the
\* transcript and an open thinking section gets its closing marker before the
\* error is propagated.
C27_FlushedAndClosedOnError ==
    stream.pc = "raised" =>
        /\ \A phase \in {"reasoning", "response"} :
              stream[phase] # <<>> => WrittenOut(phase)
        /\ stream.in_thinking_mode =>
              /\ Markers(Transcript) # <<>>
              /\ Markers(Transcript)[Len(Markers(Transcript))] = "</think>"

\* The markers the chunks call for: an opening one when non-empty reasoning
\* arrives outside a thinking section, a closing one when non-empty content
\* arrives inside one.
RECURSIVE ExpectedMarkers(_, _)
ExpectedMarkers(received, thinking) ==
    IF received = <<>> THEN <<>>
    ELSE LET opens == received[1].reasoning # <<>> /\ ~thinking
             inside == thinking \/ received[1].reasoning # <<>>
             closes == received[1].content # <<>> /\ inside
         IN  (IF opens THEN <<"<think>">> ELSE <<>>)
             \o (IF closes THEN <<"</think>">> ELSE <<>>)
             \o ExpectedMarkers(Tail(received), inside /\ ~closes)

\* THINKING after the chunks.
RECURSIVE ThinkingAfter(_, _)
ThinkingAfter(received, thinking) ==
    IF received = <<>> THEN thinking
    ELSE ThinkingAfter(Tail(received),
                       (thinking \/ received[1].reasoning # <<>>)
                       /\ received[1].content = <<>>)

Alternate(markers) ==
    \A i \in DOMAIN markers :
        markers[i] = IF i % 2 = 1 THEN "<think>" ELSE "</think>"

\* C28: in the transcript of a stream that ended normally the thinking
\* markers alternate, beginning with an opening one, and are balanced; an
\* opening marker stands exactly where non-empty reasoning arrived outside
\* THINKING, a closing one exactly where non-empty content arrived in THINKING
\* or the stream ended in THINKING.
C28_MarkersAlternateAndBalance ==
    Done =>
        /\ Alternate(Markers(stream.buffer[1]))
        /\ Len(Markers(stream.buffer[1])) % 2 = 0
        /\ Markers(stream.buffer[1]) =
              ExpectedMarkers(stream.received, FALSE)
              \o (IF ThinkingAfter(stream.received, FALSE)
                  THEN <<"</think>">> ELSE <<>>)

\* Two thinking sections, the second closed by the end of the stream.
C28_Witness ==
    /\ Done
    /\ Len(Markers(stream.buffer[1])) = 4
    /\ stream.in_thinking_mode

\* Between chunks no buffer holds a paragraph break or 120 characters.
FlushedInTime ==
    stream.pc = "read" =>
        \A phase \in {"reasoning", "response"} :
            /\ ~Contains(stream[phase], paragraph_break)
            /\ Len(stream[phase]) < min_content_length

\* C29 (as stated): a buffer is flushed as soon as it holds a paragraph break
\* or 120 characters, at the end of the stream every non-empty buffer is
\* flushed, and so the text of every received fragment stands in the
\* transcript.
C29_AllTextInTranscript ==
    /\ FlushedInTime
    /\ Done =>
          /\ \A phase \in {"reasoning", "response"} :
                stream[phase] # <<>> => WrittenOut(phase)
          /\ \A i \in DOMAIN stream.received :
                \A field \in {"reasoning", "content"} :
                    \/ stream.received[i][field] = <<>>
                    \/ Contains(Transcript, stream.received[i][field])

\* C29 (amended): a buffer is flushed, stripped, as soon as it holds a
\* paragraph break or 120 characters; at the end of the stream every buffer
\* that is not blank is flushed; every flushed text stands in the transcript,
\* and the non-whitespace characters of the fragments of a phase are those of
\* its flushed texts, in arrival order.
C29_NonBlankTextInTranscript ==
    /\ FlushedInTime
    /\ Done =>
          /\ \A phase \in {"reasoning", "response"} :
                strip(stream[phase]) # <<>> => WrittenOut(phase)
          /\ \A i \in DOMAIN stream.flushes : Recorded(stream.flushes[i].text)
          /\ NonBlank(FlushedText(stream.flushes, "reasoning"))
                = NonBlank(ReceivedText(stream.received, "reasoning"))
          /\ NonBlank(FlushedText(stream.flushes, "response"))
                = NonBlank(ReceivedText(stream.received, "content"))

\* A reasoning buffer flushed at exactly 120 characters, then a blank
\* remainder that the end of the stream leaves out.
C29_Witness ==
    /\ Done
    /\ stream.reasoning = <<" ">>
    /\ \E i \in DOMAIN stream.flushes :
          /\ stream.flushes[i].phase = "reasoning"
          /\ Len(stream.flushes[i].text) = min_content_length

Banners == stream.logger.banners

\* C30: a header is emitted only if its text was not emitted before in this
\* run and at least 5 seconds have passed since the last emitted header;
\* whether or not a banner was shown, the transcript holds the header line
\* after each marker and every flushed text.
C30_BannerSuppression ==
    /\ \A j \in DOMAIN Banners :
          Banners[j].shown =>
              /\ Banners[j].at - NewLogger(0).last_header_time >= HeaderGap
              /\ \A i \in 1..(j - 1) :
                    Banners[i].shown =>
                        /\ Banners[i].text # Banners[j].text
                        /\ Banners[j].at - Banners[i].at >= HeaderGap
    /\ \A i \in DOMAIN Transcript :
          /\ Transcript[i] = "<think>" =>
                /\ i + 4 <= Len(Transcript)
                /\ SubSeq(Transcript, i + 1, i + 4) = HeaderBar
          /\ Transcript[i] = "</think>" =>
                /\ i + 5 <= Len(Transcript)
                /\ SubSeq(Transcript, i + 1, i + 5) = <<"\n">> \o HeaderBar
    /\ \A i \in DOMAIN stream.flushes : Recorded(stream.flushes[i].text)
    /\ Len(SelectSeq(Banners, LAMBDA b : b.text[Len(b.text)] = "="))
          = Len(Markers(Transcript))

\* A header text shown once and suppressed as a repeat more than 5 seconds
\* later, and a section header suppressed within 5 seconds; the transcript
\* holds both.
C30_Witness ==
    /\ \E i, j \in DOMAIN Banners :
          /\ i < j
          /\ Banners[i].shown /\ ~Banners[j].shown
          /\ Banners[i].text = Banners[j].text
          /\ Banners[j].at - Banners[i].at >= HeaderGap
          /\ Recorded(Banners[j].text)
    /\ \E j \in DOMAIN Banners :
          /\ ~Banners[j].shown
          /\ Banners[j].text[Len(Banners[j].text)] = "="
          /\ Contains(Transcript, <<"<think>">> \o Banners[j].text)



Extracted == analyzer.pc = "extracted"
ExtractionOver == analyzer.pc \in {"extracted", "raised"}

\* C31: for every final-answer text the extraction raises nothing: a missing
\* or malformed field takes its default and the other fields are returned.
C31_ExtractionNeverRaises ==
    ExtractionOver => Extracted

\* What each line of the analysis says, read by hand.
SaidSignal(line) ==
    IF line = <<"Signal:", " ", "BUY">> THEN "BUY"
    ELSE IF line = <<"Signal:", " ", "*", "*", "[", "CLOSE", "]">> THEN "CLOSE"
    ELSE "HOLD"

SaidConfidence(line) ==
    IF line = <<"Confidence:", " ", "HIGH">> THEN "HIGH" ELSE "MEDIUM"

SaidSize(line) ==
    IF line = <<"Position Size:", " ", "2", "0", "%">> THEN <<20>>
    ELSE IF line = <<"position size:", " ", "[", "5", "]", "%">> THEN <<5>>
    ELSE <<>>

\* The first number that follows the label on its line.
FirstNumber(line) ==
    IF line = <<"Stop Loss:", " ", "$", "9", "7", ".", "0", "0">> THEN <<9700>>
    ELSE IF line = <<"Stop Loss:", " ", "9", ",", "7", "0", "0">> THEN <<970000>>
    ELSE IF line = <<"Stop Loss:", " ", "9", "7", ".", "0", "0", ".">> THEN <<9700>>
    ELSE IF line = <<"Stop Loss:", " ", "near", " ", "9", "7">> THEN <<9700>>
    ELSE IF line = <<"Take Profit:", " ", "1", "1", "0", ".", "0", "0", ",">> THEN <<11000>>
    ELSE <<>>

\* The characters that directly follow the label are digits, commas and
\* periods that form no number.
Malformed(line) ==
    line \in {<<"Stop Loss:", " ", "9", "7", ".", "0", "0", ".">>,
              <<"Take Profit:", " ", ".", ".", ".">>}

\* The number that directly follows the label, <<>> when none does.
DirectNumber(line) ==
    IF line = <<"Stop Loss:", " ", "near", " ", "9", "7">> THEN <<>>
    ELSE FirstNumber(line)

\* C32 (as stated): the five fields are looked up independently: signal and
\* confidence are the recognized labelled value or HOLD / MEDIUM, stop_loss
\* and take_profit are the first number after their label without its commas
\* or null, position_size is the labelled percentage divided by 100 or null.
C32_FieldsAsLabelled ==
    ExtractionOver =>
        /\ Extracted
        /\ analyzer.info =
              [signal |-> SaidSignal(analyzer.lines.signal),
               confidence |-> SaidConfidence(analyzer.lines.confidence),
               stop_loss |-> FirstNumber(analyzer.lines.stop_loss),
               take_profit |-> FirstNumber(analyzer.lines.take_profit),
               position_size |-> SaidSize(analyzer.lines.position_size)]

\* C32 (amended): a level is the number formed by the digits, commas and
\* periods that directly follow its label, null when no such characters
\* follow a label; when these characters form no number the call raises
\* ValueError and returns no field; otherwise the five fields are returned,
\* each depending on its own line only, wherever the line stands.
C32_FieldsAsMatched ==
    ExtractionOver =>
        IF Malformed(analyzer.lines.stop_loss) \/ Malformed(analyzer.lines.take_profit)
        THEN analyzer.pc = "raised" /\ analyzer.info = ValueError
        ELSE /\ Extracted
             /\ analyzer.info =
                   [signal |-> SaidSignal(analyzer.lines.signal),
                    confidence |-> SaidConfidence(analyzer.lines.confidence),
                    stop_loss |-> DirectNumber(analyzer.lines.stop_loss),
                    take_profit |-> DirectNumber(analyzer.lines.take_profit),
                    position_size |-> SaidSize(analyzer.lines.position_size)]

\* All five fields read from a text whose lines stand in reverse order, the
\* stop with a thousands separator.
C32_Witness ==
    /\ Extracted
    /\ analyzer.order = "reversed"
    /\ analyzer.info = [signal |-> "CLOSE", confidence |-> "HIGH",
                        stop_loss |-> <<970000>>, take_profit |-> <<11000>>,
                        position_size |-> <<5>>]


ReasoningLetters == {"r", "s"}
AnswerLetters == {"a", "4", "2"}

\* Element i of the transcript stands after a "<think>" that is not yet closed.
InsideThinking(text, i) ==
    Cardinality({k \in 1..(i - 1) : text[k] = "<think>"})
        > Cardinality({k \in 1..(i - 1) : text[k] = "</think>"})

\* The letters of the chunks in arrival order, reasoning before content
\* within a chunk.
RECURSIVE ArrivedLetters(_)
ArrivedLetters(received) ==
    IF received = <<>> THEN <<>>
    ELSE SelectSeq(received[1].reasoning \o received[1].content,
                   LAMBDA c : c \in ReasoningLetters \cup AnswerLetters)
         \o ArrivedLetters(Tail(received))

\* C33: in the transcript of a stream that ended normally every reasoning
\* text stands between a "<think>" and its "</think>", every answer text
\* stands outside the marker pairs, and the flushed texts stand in the order
\* in which their fragments arrived.
C33_ReasoningInsideAnswerOutside ==
    Done =>
        /\ \A i \in DOMAIN Transcript :
              /\ Transcript[i] \in ReasoningLetters => InsideThinking(Transcript, i)
              /\ Transcript[i] \in AnswerLetters => ~InsideThinking(Transcript, i)
        /\ SelectSeq(Transcript, LAMBDA c : c \in ReasoningLetters \cup AnswerLetters)
              = ArrivedLetters(stream.received)


\* C34: with max_retries = k >= 0 and an operation that always fails with a
\* transient error, the operation is invoked exactly k + 1 times and every
\* sleep is followed by another invocation: when exhaustion is reported,
\* nothing was slept after the last failed attempt.
C34_NoSleepAfterLastAttempt ==
    (AlwaysFailing /\ retry.pc = "returned" /\ retry.result = "None") =>
        /\ Len(retry.calls) = retry.max_retries + 1
        /\ Len(retry.slept) = Len(retry.calls) - 1


\* C40: without a fixed delay and with no additional delay, whatever the
\* current time, the sleep d computed by the scheduler satisfies
\* 0 < d <= interval, and the current time plus d is a multiple of the
\* interval: no wait has length zero.
C40_DelayWithinInterval ==
    (sched.pc \in {"sleep", "done"} /\ sched.delay = <<>> /\ sched.add_delay = 0) =>
        /\ 0 < sched.delay_ms
        /\ sched.delay_ms <= sched.interval * Ms
        /\ (sched.current_time_ms + sched.delay_ms) % (sched.interval * Ms) = 0

\* One millisecond before the end of a minute the wait is one millisecond; on
\* the boundary it would be the whole minute.
C40_Witness ==
    /\ sched.pc = "sleep"
    /\ sched.delay = <<>> /\ sched.add_delay = 0
    /\ sched.interval = 60
    /\ sched.current_time_ms = 119999
    /\ sched.delay_ms = 1


\* The entry that has to stand before a closing entry.
OpeningFor(action) == IF action = "CLOSE_LONG" THEN "BUY" ELSE "SELL"

\* C36: from an empty ledger and no position, with writes that succeed, the
\* ledger alternates opening and closing entries beginning with an opening
\* one, a CLOSE_LONG directly follows a BUY and a CLOSE_SHORT a SELL, and the
\* last entry is an opening one exactly when a position is open.
C36_LedgerAlternates ==
    /\ \A i \in DOMAIN Ledger :
          IF i % 2 = 1 THEN Ledger[i].action \in {"BUY", "SELL"}
          ELSE /\ Ledger[i].action \in {"CLOSE_LONG", "CLOSE_SHORT"}
               /\ Ledger[i - 1].action = OpeningFor(Ledger[i].action)
    /\ LedgerSaysOpen <=> current_position # <<>>

\* A long position opened and closed, then a short one opened and closed by
\* its stop.
C36_Witness ==
    /\ Len(Ledger) = 4
    /\ Ledger[1].action = "BUY" /\ Ledger[2].action = "CLOSE_LONG"
    /\ Ledger[3].action = "SELL" /\ Ledger[4].action = "CLOSE_SHORT"
    /\ current_position = <<>>


\* C37: when the process stops between the two writes of an opening or a
\* closing and is started again, the recovered state is consistent: a
\* position is recovered exactly when the last ledger entry is an opening
\* one, and the ledger never closes a position twice.
C37_RecoveredConsistent ==
    /\ pre.op = "load" => (current_position # <<>> <=> LedgerSaysOpen)
    /\ \A i \in 2..Len(Ledger) :
          ~(IsCloseAction(Ledger[i].action) /\ IsCloseAction(Ledger[i - 1].action))


\* C35: the response cache is overwritten in every cycle: after a cycle that
\* reached the analysis, the cached response is that cycle's response, also
\* when its model call failed, so the next prompt's previous analysis comes
\* from the cycle just before it.
C35_CacheHoldsLastCycle ==
    /\ (analyzer.pc = "prompt" /\ analyzer.cycle >= 1)
          => analyzer.previous_response_file = <<analyzer.analysis>>
    /\ (analyzer.pc \in {"send", "respond", "failed"} /\ analyzer.cycle >= 2)
          => analyzer.prompt_previous = analyzer.analysis

\* C38: when the model endpoint keeps failing with a connection error or a
\* timeout, send_prompt makes one further attempt with the fallback settings
\* and then raises: at most two model calls per send_prompt.
C38_AtMostTwoCalls ==
    analyzer.pc \in {"send", "respond", "failed"} => analyzer.calls <= 2


ModelFailed == pc = "apply" /\ pre.stage = "model_failed"

\* C39: when the model call of a tick fails, the tick goes on: the analysis is
\* the text "HOLD", the extracted signal is HOLD with no stop loss, take
\* profit or size, and applying it leaves the position, positions.json and the
\* ledger as they were.
C39_FailedCallHolds ==
    [][ModelFailed =>
          /\ analysis.signal = "HOLD"
          /\ analysis.stop_loss = <<>>
          /\ analysis.take_profit = <<>>
          /\ analysis.position_size = <<>>
          /\ pc' = "wait"
          /\ pre'.op = "apply"
          /\ UNCHANGED <<current_position, positions_file, history_file>>]_vars

C39_Witness ==
    /\ ModelFailed
    /\ current_position # <<>>
    /\ Len(Ledger) >= 1
    /\ ENABLED ProcessAnalysis

====
